---- MODULE Spec2Model ----
(***************************************************************************)
(* bronzite: the daemon (crates/bronzite-daemon/src/main.rs), the client   *)
(* stub (crates/bronzite-client/src/lib.rs) and the ensure protocol.       *)
(*                                                                         *)
(* Spec        the serving daemon: accept loop, one worker per connection, *)
(*             the cache manager thread and its command channel; the       *)
(*             peers write arbitrary lines.                                *)
(* SpecLive    Spec with the daemon's threads scheduled.                   *)
(* SpecInv     Spec plus InvalidateCache commands put on the channel.      *)
(* SpecClient  Spec where the connections are driven by BronziteClient     *)
(*             handles of one process, or by a peer writing raw lines.     *)
(* SpecQuery   BronziteClient::query against an arbitrary peer.            *)
(* SpecShared  two threads with reflection handles on one BronziteClient.  *)
(* SpecEnsure  two --ensure callers and the daemons they spawn.            *)
(* SpecEnsureCallers  the same, with only the callers scheduled.           *)
(* SpecPattern path_matches_pattern (crates/bronzite-types/src/lib.rs)     *)
(*             over the paths of a bounded alphabet.                       *)
(* SpecResolve execute_query on a cached snapshot.                         *)
(* SpecCodec   the serde encoding of Request and Response.                 *)
(* SpecProbe   is_daemon_running against every state of the socket path.   *)
(* SpecScan    compile_and_extract and extract_json_objects on the         *)
(*             extractor's output.                                         *)
(***************************************************************************)
EXTENDS Integers, Sequences, FiniteSets, TLC

\* ---------------------------------------------------------------- bounds
\* Lines the peers write, over all connections.
MaxLines == 2
\* InvalidateCache commands put on the channel (SpecInv).
MaxInval == 1
\* Response lines an arbitrary peer writes (SpecQuery).
MaxPeerLines == 2
\* Pieces (a name, a separator, a star) a path, and a pattern, is made of.
MaxPathPieces == 5
MaxPatternPieces == 4
\* Characters of the line the liveness probe reads back.
MaxReplyLen == 5
\* Characters of a stretch of text around the objects the extractor prints.
MaxTextLen == 1

Conns == {1, 2}
Units == {"a", "b"}
\* The --ensure callers; caller e spawns daemon e.
Callers == {"p1", "p2"}

\* ----------------------------------------------------------------- state
VARIABLES
    sent,        \* sent[c]: the lines the peer of connection c has written, in order
    rd,          \* rd[c]: how many of them the worker has read
    peer,        \* peer[c]: "open" | "closed" (the peer's end of the stream)
    wpc,         \* wpc[c]: the worker's position in handle_client
    wreq,        \* wreq[c]: the request the worker has decoded
    wres,        \* wres[c]: the QueryResult the worker received
    outbuf,      \* outbuf[c]: the response lines written to connection c, in order
    queue,       \* the mpsc channel of CacheMessage
    cmpc,        \* the cache manager thread: "recv" | "extracting" | "stopped"
    cmcur,       \* the message whose extraction is running
    cache,       \* CacheManager.cache: crate name -> CrateTypeInfo
    reply,       \* reply[c]: the per-request response channel of connection c
    calls,       \* calls[u]: how often compile_and_extract ran for u (history)
    fails,       \* fails[u]: how often it returned Err (history)
    running,     \* the Arc<Mutex<bool>> stop flag
    mainpc,      \* the main thread's position in the accept loop
    invals,      \* InvalidateCache commands sent so far (history)
    nextId,      \* REQUEST_ID
    cpc,         \* cpc[c]: the client handle: "raw" | "idle" | "await"
    cid,         \* cid[c]: the id of the outstanding request
    cout,        \* cout[c]: what the last query() call returned
    crd,         \* crd[c]: response lines consumed from the stream
    epc,         \* epc[e]: the --ensure caller's position
    ephase,      \* ephase[e]: "check" (the first probe) | "poll" (wait_for_daemon_ready)
    econn,       \* econn[e]: the daemon the caller's probe is connected to
    dpc,         \* dpc[d]: the spawned daemon's position in main
    sock,        \* the socket path: "none" | "stale" | the daemon whose listener it names
    ecode,       \* ecode[e]: the exit of the --ensure process (main lines 681-689)
    input,       \* the arguments of the library function under study
    output       \* what it returned (SpecEnsure: to the client of caller e)

daemonVars == <<sent, rd, peer, wpc, wreq, wres, outbuf, queue, cmpc, cmcur,
                cache, reply, calls, fails, running, mainpc, invals>>
clientVars == <<nextId, cpc, cid, cout, crd>>
ensureVars == <<epc, ephase, econn, dpc, sock, ecode>>
libVars == <<input, output>>
vars == <<daemonVars, clientVars, ensureVars, libVars>>

\* ---------------------------------------------------------------- values
\* A line on the wire, as the worker's decoder sees it.
MkLine(k, i, u, q) == [kind |-> k, id |-> i, unit |-> u, query |-> q]
EmptyLine == MkLine("empty", 0, "", "None")
BadLine == MkLine("bad", 0, "", "None")
NoReq == MkLine("none", 0, "", "None")

\* Query variants: the two that need no snapshot, and the others.
SnapQueries == {"ListItems"}

\* The k-th line written on connection c carries an id of its own.
RawId(c, k) == 10 * c + k

RawLines(c, k) ==
    {EmptyLine, BadLine}
        \cup {MkLine("req", RawId(c, k), u, q) : u \in {""} \cup Units, q \in {"Ping", "Shutdown"}}
        \cup {MkLine("req", RawId(c, k), u, q) : u \in Units, q \in SnapQueries}

QueryLines(c, k) == {l \in RawLines(c, k) : l.kind = "req" /\ l.query # "Shutdown"}

\* A response line: ok = it decodes as a Response.
MkResp(i, r) == [ok |-> TRUE, id |-> i, result |-> r]
Garbage == [ok |-> FALSE, id |-> 0, result |-> "None"]

ErrorResults == {"ErrParse", "ErrExtract", "ErrUnavailable", "ErrNoReply", "ErrOther"}
IsError(r) == r \in ErrorResults

\* What BronziteClient::query returned.
Outcome(k, d, e, g) == [kind |-> k, data |-> d, expected |-> e, got |-> g]
NoOutcome == Outcome("None", "None", 0, 0)

\* A CacheMessage.
QueryMsg(c, u, q) == [type |-> "Query", conn |-> c, unit |-> u, query |-> q]
InvalidateMsg(u) == [type |-> "InvalidateCache", conn |-> 0, unit |-> u, query |-> "None"]
ShutdownMsg == [type |-> "Shutdown", conn |-> 0, unit |-> "", query |-> "None"]
NoMsg == [type |-> "None", conn |-> 0, unit |-> "", query |-> "None"]

\* ------------------------------------------------------- CacheManager
NoInfo == "<none>"
EmptyCache == [u \in {} |-> NoInfo]

\* What the extractor printed: the crate names of the objects that parse as
\* CrateTypeInfo, in order (an object that does not parse is skipped).
ExtractorOutputs == {<<>>, <<"a">>, <<"b">>, <<"b", "a">>}

\* A scan that takes the first object that parses, whatever its name.
FindInfoAnyName(objs, crate_name) ==
    IF Len(objs) = 0 THEN NoInfo ELSE objs[1]

\* compile_and_extract's scan: the first object named crate_name, or, for an
\* empty crate_name, the last object.
FindInfo(objs, crate_name) ==
    LET hits == {i \in 1..Len(objs) : objs[i] = crate_name}
    IN  IF crate_name = ""
        THEN IF Len(objs) = 0 THEN NoInfo ELSE objs[Len(objs)]
        ELSE IF hits = {} THEN NoInfo
             ELSE objs[CHOOSE i \in hits : \A j \in hits : i <= j]

\* get_or_compile: the hit test and the insert.
CacheHitNever(ch, u) == FALSE
CacheHit(ch, u) == u \in DOMAIN ch

CacheInsertDropped(ch, u, info) == ch
CacheInsert(ch, u, info) ==
    [x \in DOMAIN ch \cup {u} |-> IF x = u THEN info ELSE ch[x]]

\* What get_or_compile leaves in the map when compile_and_extract returns Err.
CacheOnErrorNegative(ch, u) == CacheInsert(ch, u, NoInfo)
CacheOnError(ch, u) == ch

\* invalidate
CacheRemove(ch, u) == [x \in DOMAIN ch \ {u} |-> ch[x]]

\* execute_query lines 224-451 on a snapshot that is present: the resolver's
\* answer, whatever it is.
Resolve(ch, u, q) == "Resolved"

\* ------------------------------------------------------- handle_client
\* line 903: the id of the response to a decoded request.
RespIdZero(req) == 0
RespId(req) == req.id

\* lines 854-861: the answer to a line that does not decode, and where the
\* worker goes after it (continue).
ParseErrorResponse == MkResp(0, "ErrParse")
AfterParseErrorBreak == "closed"
AfterParseError == "read"

\* Where the worker goes once its message is on the channel.
AfterSendNoWait == "read"
AfterSend == "wait"

\* The line the worker's reader yields next.
NextLine(c) == sent[c][rd[c] + 1]

\* The lines written so far, over all connections.
RECURSIVE SumLen(_, _)
SumLen(f, S) ==
    IF S = {} THEN 0
    ELSE LET c == CHOOSE x \in S : TRUE IN Len(f[c]) + SumLen(f, S \ {c})
LinesSent == SumLen(sent, Conns)

\* A write to the stream: lost when the peer has closed its end.
Written(c, line) == IF peer[c] = "open" THEN Append(outbuf[c], line) ELSE outbuf[c]

\* ------------------------------------------------------------------ Init
InitDaemon ==
    /\ sent = [c \in Conns |-> <<>>]
    /\ rd = [c \in Conns |-> 0]
    /\ peer = [c \in Conns |-> "open"]
    /\ wpc = [c \in Conns |-> "none"]
    /\ wreq = [c \in Conns |-> NoReq]
    /\ wres = [c \in Conns |-> "None"]
    /\ outbuf = [c \in Conns |-> <<>>]
    /\ queue = <<>>
    /\ cmpc = "recv"
    /\ cmcur = NoMsg
    /\ cache = EmptyCache
    /\ reply = [c \in Conns |-> "None"]
    /\ calls = [u \in Units |-> 0]
    /\ fails = [u \in Units |-> 0]
    /\ running = TRUE
    /\ mainpc = "check"
    /\ invals = 0

InitNoClient ==
    /\ nextId = 1
    /\ cpc = [c \in Conns |-> "raw"]
    /\ cid = [c \in Conns |-> 0]
    /\ cout = [c \in Conns |-> NoOutcome]
    /\ crd = [c \in Conns |-> 0]

\* The --ensure process has not exited.
NoExit == [code |-> -1, diag |-> FALSE]

InitNoEnsure ==
    /\ epc = [e \in Callers |-> "idle"]
    /\ ephase = [e \in Callers |-> "check"]
    /\ econn = [e \in Callers |-> "none"]
    /\ dpc = [e \in Callers |-> "none"]
    /\ sock = "none"
    /\ ecode = [e \in Callers |-> NoExit]

\* No library function is under study.
InitNoLib ==
    /\ input = <<>>
    /\ output = <<>>

Init == InitDaemon /\ InitNoClient /\ InitNoEnsure /\ InitNoLib

\* ----------------------------------------------------------------- peers
\* A peer connects: the connection waits in the listener's backlog.
Connect(c) ==
    /\ wpc[c] = "none"
    /\ mainpc # "exited"
    /\ wpc' = [wpc EXCEPT ![c] = "backlog"]
    /\ UNCHANGED <<sent, rd, peer, wreq, wres, outbuf, queue, cmpc, cmcur, cache,
                   reply, calls, fails, running, mainpc, invals, clientVars, ensureVars, libVars>>

\* A peer that is no BronziteClient writes a line.
PeerSendFrom(c, lines) ==
    /\ cpc[c] = "raw"
    /\ wpc[c] \notin {"none", "foreign"}
    /\ peer[c] = "open"
    /\ LinesSent < MaxLines
    /\ \E l \in lines : sent' = [sent EXCEPT ![c] = Append(@, l)]
    /\ UNCHANGED <<rd, peer, wpc, wreq, wres, outbuf, queue, cmpc, cmcur, cache,
                   reply, calls, fails, running, mainpc, invals, clientVars, ensureVars, libVars>>

\* Any line.
PeerSend(c) == PeerSendFrom(c, RawLines(c, Len(sent[c]) + 1))

\* A well-formed request other than shutdown.
PeerQuery(c) == PeerSendFrom(c, QueryLines(c, Len(sent[c]) + 1))

PeerClose(c) ==
    /\ cpc[c] = "raw"
    /\ wpc[c] \notin {"none", "foreign"}
    /\ peer[c] = "open"
    /\ peer' = [peer EXCEPT ![c] = "closed"]
    /\ UNCHANGED <<sent, rd, wpc, wreq, wres, outbuf, queue, cmpc, cmcur, cache,
                   reply, calls, fails, running, mainpc, invals, clientVars, ensureVars, libVars>>

\* ------------------------------------------------------------------ main
\* line 757: the accept loop reads the stop flag.
MainCheck ==
    /\ mainpc = "check"
    /\ mainpc' = IF running THEN "accept" ELSE "cleanup"
    /\ UNCHANGED <<sent, rd, peer, wpc, wreq, wres, outbuf, queue, cmpc, cmcur,
                   cache, reply, calls, fails, running, invals, clientVars, ensureVars, libVars>>

\* line 761: accept() on the non-blocking listener hands a connection to a worker.
MainAccept ==
    /\ mainpc = "accept"
    /\ \E c \in Conns :
        /\ wpc[c] = "backlog"
        /\ wpc' = [wpc EXCEPT ![c] = "read"]
    /\ mainpc' = "check"
    /\ UNCHANGED <<sent, rd, peer, wreq, wres, outbuf, queue, cmpc, cmcur, cache,
                   reply, calls, fails, running, invals, clientVars, ensureVars, libVars>>

\* line 770: WouldBlock, sleep, loop.
MainWouldBlock ==
    /\ mainpc = "accept"
    /\ \A c \in Conns : wpc[c] # "backlog"
    /\ mainpc' = "check"
    /\ UNCHANGED <<sent, rd, peer, wpc, wreq, wres, outbuf, queue, cmpc, cmcur,
                   cache, reply, calls, fails, running, invals, clientVars, ensureVars, libVars>>

\* line 783: the Shutdown command goes on the channel.
MainCleanup ==
    /\ mainpc = "cleanup"
    /\ queue' = IF cmpc = "stopped" THEN queue ELSE Append(queue, ShutdownMsg)
    /\ mainpc' = "join"
    /\ UNCHANGED <<sent, rd, peer, wpc, wreq, wres, outbuf, cmpc, cmcur, cache,
                   reply, calls, fails, running, invals, clientVars, ensureVars, libVars>>

\* lines 784-790: join the cache manager, remove the socket file, return: the
\* process ends, its listener and every worker's stream with it.
MainExit ==
    /\ mainpc = "join"
    /\ cmpc = "stopped"
    /\ mainpc' = "exited"
    /\ wpc' = [c \in Conns |-> IF wpc[c] = "none" THEN "none" ELSE "closed"]
    /\ UNCHANGED <<sent, rd, peer, wreq, wres, outbuf, queue, cmpc, cmcur, cache,
                   reply, calls, fails, running, invals, clientVars, ensureVars, libVars>>

\* --------------------------------------------------------- handle_client
\* lines 835-863: the next line; an empty one is skipped, one that does not
\* decode is answered with an Error of id 0, a Request goes on to dispatch.
WorkerRead(c) ==
    /\ wpc[c] = "read"
    /\ rd[c] < Len(sent[c])
    /\ LET l == NextLine(c) IN
        /\ rd' = [rd EXCEPT ![c] = @ + 1]
        /\ CASE l.kind = "empty" ->
                  UNCHANGED <<wpc, wreq, outbuf>>
             [] l.kind = "bad" ->
                  /\ outbuf' = [outbuf EXCEPT ![c] = Written(c, ParseErrorResponse)]
                  /\ wpc' = [wpc EXCEPT ![c] = AfterParseError]
                  /\ UNCHANGED wreq
             [] OTHER ->
                  /\ wreq' = [wreq EXCEPT ![c] = l]
                  /\ wpc' = [wpc EXCEPT ![c] = "send"]
                  /\ UNCHANGED outbuf
    /\ UNCHANGED <<sent, peer, wres, queue, cmpc, cmcur, cache, reply, calls,
                   fails, running, mainpc, invals, clientVars, ensureVars, libVars>>

\* A worker that takes the daemon down when its stream ends.
WorkerEOFStops(c) ==
    /\ wpc[c] = "read"
    /\ rd[c] = Len(sent[c])
    /\ peer[c] = "closed"
    /\ wpc' = [wpc EXCEPT ![c] = "closed"]
    /\ running' = FALSE
    /\ UNCHANGED <<sent, rd, peer, wreq, wres, outbuf, queue, cmpc, cmcur, cache,
                   reply, calls, fails, mainpc, invals, clientVars, ensureVars, libVars>>

\* lines 836-843: end of stream (or a read error) ends the loop.
WorkerEOF(c) ==
    /\ wpc[c] = "read"
    /\ rd[c] = Len(sent[c])
    /\ peer[c] = "closed"
    /\ wpc' = [wpc EXCEPT ![c] = "closed"]
    /\ UNCHANGED <<sent, rd, peer, wreq, wres, outbuf, queue, cmpc, cmcur, cache,
                   reply, calls, fails, running, mainpc, invals, clientVars, ensureVars, libVars>>

\* lines 875-881, 883: the message goes on the channel.
WorkerSend(c) ==
    /\ wpc[c] = "send"
    /\ cmpc # "stopped"
    /\ queue' = Append(queue, QueryMsg(c, wreq[c].unit, wreq[c].query))
    /\ wpc' = [wpc EXCEPT ![c] = AfterSend]
    /\ UNCHANGED <<sent, rd, peer, wreq, wres, outbuf, cmpc, cmcur, cache, reply,
                   calls, fails, running, mainpc, invals, clientVars, ensureVars, libVars>>

\* lines 883-892: the receiver is gone; an Error with the request's id, then break.
WorkerSendFailed(c) ==
    /\ wpc[c] = "send"
    /\ cmpc = "stopped"
    /\ outbuf' = [outbuf EXCEPT ![c] = Written(c, MkResp(RespId(wreq[c]), "ErrUnavailable"))]
    /\ wpc' = [wpc EXCEPT ![c] = "closed"]
    /\ wreq' = [wreq EXCEPT ![c] = NoReq]
    /\ UNCHANGED <<sent, rd, peer, wres, queue, cmpc, cmcur, cache, reply,
                   calls, fails, running, mainpc, invals, clientVars, ensureVars, libVars>>

\* lines 895-896: the result arrives on the reply channel.
WorkerRecv(c) ==
    /\ wpc[c] = "wait"
    /\ reply[c] # "None"
    /\ wres' = [wres EXCEPT ![c] = reply[c]]
    /\ reply' = [reply EXCEPT ![c] = "None"]
    /\ wpc' = [wpc EXCEPT ![c] = "write"]
    /\ UNCHANGED <<sent, rd, peer, wreq, outbuf, queue, cmpc, cmcur, cache, calls,
                   fails, running, mainpc, invals, clientVars, ensureVars, libVars>>

\* lines 897-899: the reply sender was dropped unanswered.
WorkerRecvErr(c) ==
    /\ wpc[c] = "wait"
    /\ reply[c] = "None"
    /\ cmpc = "stopped"
    /\ wres' = [wres EXCEPT ![c] = "ErrNoReply"]
    /\ wpc' = [wpc EXCEPT ![c] = "write"]
    /\ UNCHANGED <<sent, rd, peer, wreq, outbuf, queue, cmpc, cmcur, cache, reply,
                   calls, fails, running, mainpc, invals, clientVars, ensureVars, libVars>>

\* lines 902-907, 915: the response is written; a shutdown request goes on to
\* the stop flag, any other back to reading.
WorkerWrite(c) ==
    /\ wpc[c] = "write"
    /\ peer[c] = "open"
    /\ outbuf' = [outbuf EXCEPT ![c] = Append(@, MkResp(RespId(wreq[c]), wres[c]))]
    /\ wpc' = [wpc EXCEPT ![c] = IF wreq[c].query = "Shutdown" THEN "flag" ELSE "read"]
    /\ wreq' = [wreq EXCEPT ![c] = NoReq]
    /\ wres' = [wres EXCEPT ![c] = "None"]
    /\ UNCHANGED <<sent, rd, peer, queue, cmpc, cmcur, cache, reply,
                   calls, fails, running, mainpc, invals, clientVars, ensureVars, libVars>>

\* A worker that goes on to the stop flag although the write failed.
WorkerWriteFailedStops(c) ==
    /\ wpc[c] = "write"
    /\ peer[c] = "closed"
    /\ wpc' = [wpc EXCEPT ![c] = IF wreq[c].query = "Shutdown" THEN "flag" ELSE "closed"]
    /\ wreq' = [wreq EXCEPT ![c] = NoReq]
    /\ wres' = [wres EXCEPT ![c] = "None"]
    /\ UNCHANGED <<sent, rd, peer, outbuf, queue, cmpc, cmcur, cache,
                   reply, calls, fails, running, mainpc, invals, clientVars, ensureVars, libVars>>

\* lines 907-912: the write fails; break.
WorkerWriteFailed(c) ==
    /\ wpc[c] = "write"
    /\ peer[c] = "closed"
    /\ wpc' = [wpc EXCEPT ![c] = "closed"]
    /\ wreq' = [wreq EXCEPT ![c] = NoReq]
    /\ wres' = [wres EXCEPT ![c] = "None"]
    /\ UNCHANGED <<sent, rd, peer, outbuf, queue, cmpc, cmcur, cache,
                   reply, calls, fails, running, mainpc, invals, clientVars, ensureVars, libVars>>

\* lines 915-918: the stop flag is cleared; break.
WorkerSetFlag(c) ==
    /\ wpc[c] = "flag"
    /\ running' = FALSE
    /\ wpc' = [wpc EXCEPT ![c] = "closed"]
    /\ UNCHANGED <<sent, rd, peer, wreq, wres, outbuf, queue, cmpc, cmcur, cache,
                   reply, calls, fails, mainpc, invals, clientVars, ensureVars, libVars>>

\* ----------------------------------------------------- run_cache_manager
\* A cache manager that sends ping and shutdown through get_or_compile.
CMQueryTrivialCompiles ==
    /\ cmpc = "recv"
    /\ queue # <<>>
    /\ LET m == Head(queue) IN
        /\ m.type = "Query"
        /\ m.query \in {"Ping", "Shutdown"}
        /\ reply' = [reply EXCEPT ![m.conn] =
                        IF m.query = "Ping" THEN "Pong" ELSE "ShuttingDown"]
        /\ calls' = [calls EXCEPT ![m.unit] = IF CacheHit(cache, m.unit) THEN @ ELSE @ + 1]
    /\ queue' = Tail(queue)
    /\ UNCHANGED <<sent, rd, peer, wpc, wreq, wres, outbuf, cmpc, cmcur, cache,
                   fails, running, mainpc, invals, clientVars, ensureVars, libVars>>

\* lines 797-803 with execute_query lines 199-213: ping and shutdown are
\* answered without a snapshot.
CMQueryTrivial ==
    /\ cmpc = "recv"
    /\ queue # <<>>
    /\ LET m == Head(queue) IN
        /\ m.type = "Query"
        /\ m.query \in {"Ping", "Shutdown"}
        /\ reply' = [reply EXCEPT ![m.conn] =
                        IF m.query = "Ping" THEN "Pong" ELSE "ShuttingDown"]
    /\ queue' = Tail(queue)
    /\ UNCHANGED <<sent, rd, peer, wpc, wreq, wres, outbuf, cmpc, cmcur, cache,
                   calls, fails, running, mainpc, invals, clientVars, ensureVars, libVars>>

\* execute_query lines 215-221 on a hit of get_or_compile (lines 105, 109).
CMQueryHit ==
    /\ cmpc = "recv"
    /\ queue # <<>>
    /\ LET m == Head(queue) IN
        /\ m.type = "Query"
        /\ m.query \in SnapQueries
        /\ CacheHit(cache, m.unit)
        /\ reply' = [reply EXCEPT ![m.conn] = Resolve(cache, m.unit, m.query)]
    /\ queue' = Tail(queue)
    /\ UNCHANGED <<sent, rd, peer, wpc, wreq, wres, outbuf, cmpc, cmcur, cache,
                   calls, fails, running, mainpc, invals, clientVars, ensureVars, libVars>>

\* get_or_compile line 106 on a miss: compile_and_extract starts; the thread
\* is inside it until the extractor's output is in.
CMQueryMiss ==
    /\ cmpc = "recv"
    /\ queue # <<>>
    /\ LET m == Head(queue) IN
        /\ m.type = "Query"
        /\ m.query \in SnapQueries
        /\ ~CacheHit(cache, m.unit)
        /\ cmcur' = m
        /\ calls' = [calls EXCEPT ![m.unit] = @ + 1]
    /\ cmpc' = "extracting"
    /\ queue' = Tail(queue)
    /\ UNCHANGED <<sent, rd, peer, wpc, wreq, wres, outbuf, cache, reply, fails,
                   running, mainpc, invals, clientVars, ensureVars, libVars>>

\* compile_and_extract lines 112-190 returns Ok: get_or_compile line 107
\* inserts, execute_query answers from the snapshot.
CMExtractOk ==
    /\ cmpc = "extracting"
    /\ \E out \in ExtractorOutputs :
        /\ FindInfo(out, cmcur.unit) # NoInfo
        /\ cache' = CacheInsert(cache, cmcur.unit, FindInfo(out, cmcur.unit))
    /\ reply' = [reply EXCEPT ![cmcur.conn] = Resolve(cache', cmcur.unit, cmcur.query)]
    /\ cmpc' = "recv"
    /\ cmcur' = NoMsg
    /\ UNCHANGED <<sent, rd, peer, wpc, wreq, wres, outbuf, queue, calls, fails,
                   running, mainpc, invals, clientVars, ensureVars, libVars>>

\* compile_and_extract returns Err (the sysroot lookup or the extractor could
\* not be run, or no object matches): execute_query lines 218-220.
CMExtractErr ==
    /\ cmpc = "extracting"
    /\ cache' = CacheOnError(cache, cmcur.unit)
    /\ fails' = [fails EXCEPT ![cmcur.unit] = @ + 1]
    /\ reply' = [reply EXCEPT ![cmcur.conn] = "ErrExtract"]
    /\ cmpc' = "recv"
    /\ cmcur' = NoMsg
    /\ UNCHANGED <<sent, rd, peer, wpc, wreq, wres, outbuf, queue, calls,
                   running, mainpc, invals, clientVars, ensureVars, libVars>>

\* An invalidation that does not wait for the command in progress.
CMInvalidateAnytime ==
    /\ cmpc # "stopped"
    /\ queue # <<>>
    /\ Head(queue).type = "InvalidateCache"
    /\ cache' = CacheRemove(cache, Head(queue).unit)
    /\ queue' = Tail(queue)
    /\ UNCHANGED <<sent, rd, peer, wpc, wreq, wres, outbuf, cmpc, cmcur, reply,
                   calls, fails, running, mainpc, invals, clientVars, ensureVars, libVars>>

\* lines 805-807
CMInvalidate ==
    /\ cmpc = "recv"
    /\ queue # <<>>
    /\ Head(queue).type = "InvalidateCache"
    /\ cache' = CacheRemove(cache, Head(queue).unit)
    /\ queue' = Tail(queue)
    /\ UNCHANGED <<sent, rd, peer, wpc, wreq, wres, outbuf, cmpc, cmcur, reply,
                   calls, fails, running, mainpc, invals, clientVars, ensureVars, libVars>>

\* lines 808-813: the loop ends; the receiver and what is still queued are
\* dropped.
CMShutdown ==
    /\ cmpc = "recv"
    /\ queue # <<>>
    /\ Head(queue).type = "Shutdown"
    /\ cmpc' = "stopped"
    /\ queue' = <<>>
    /\ UNCHANGED <<sent, rd, peer, wpc, wreq, wres, outbuf, cmcur, cache, reply,
                   calls, fails, running, mainpc, invals, clientVars, ensureVars, libVars>>

\* A holder of the channel's sender puts an InvalidateCache command on it.
SendInvalidate ==
    /\ invals < MaxInval
    /\ cmpc # "stopped"
    /\ \E u \in Units : queue' = Append(queue, InvalidateMsg(u))
    /\ invals' = invals + 1
    /\ UNCHANGED <<sent, rd, peer, wpc, wreq, wres, outbuf, cmpc, cmcur, cache,
                   reply, calls, fails, running, mainpc, clientVars, ensureVars, libVars>>

\* ------------------------------------------------------------------ Next
Next ==
    \/ \E c \in Conns : Connect(c)
    \/ \E c \in Conns : PeerSend(c)
    \/ \E c \in Conns : PeerClose(c)
    \/ MainCheck
    \/ MainAccept
    \/ MainWouldBlock
    \/ MainCleanup
    \/ MainExit
    \/ \E c \in Conns : WorkerRead(c)
    \/ \E c \in Conns : WorkerEOF(c)
    \/ \E c \in Conns : WorkerSend(c)
    \/ \E c \in Conns : WorkerSendFailed(c)
    \/ \E c \in Conns : WorkerRecv(c)
    \/ \E c \in Conns : WorkerRecvErr(c)
    \/ \E c \in Conns : WorkerWrite(c)
    \/ \E c \in Conns : WorkerWriteFailed(c)
    \/ \E c \in Conns : WorkerSetFlag(c)
    \/ CMQueryTrivial
    \/ CMQueryHit
    \/ CMQueryMiss
    \/ CMExtractOk
    \/ CMExtractErr
    \/ CMShutdown

Spec == Init /\ [][Next]_vars

\* The daemon's threads are scheduled: the main thread, the cache manager
\* thread (and the extractor it waits for) and every worker thread each take
\* a step when they can. The peers are under no obligation.
SpecLive ==
    /\ Spec
    /\ WF_vars(MainCheck \/ MainAccept \/ MainWouldBlock \/ MainCleanup \/ MainExit)
    /\ WF_vars(CMQueryTrivial \/ CMQueryHit \/ CMQueryMiss \/ CMExtractOk \/ CMExtractErr
               \/ CMShutdown)
    /\ \A c \in Conns :
         WF_vars(WorkerRead(c) \/ WorkerEOF(c) \/ WorkerSend(c) \/ WorkerSendFailed(c)
                 \/ WorkerRecv(c) \/ WorkerRecvErr(c) \/ WorkerWrite(c)
                 \/ WorkerWriteFailed(c) \/ WorkerSetFlag(c))

\* The cache manager under queries and InvalidateCache commands; the peers
\* stay connected and none shuts the daemon down.
NextInv ==
    \/ \E c \in Conns : Connect(c)
    \/ \E c \in Conns : PeerQuery(c)
    \/ MainCheck
    \/ MainAccept
    \/ MainWouldBlock
    \/ \E c \in Conns : WorkerRead(c)
    \/ \E c \in Conns : WorkerSend(c)
    \/ \E c \in Conns : WorkerRecv(c)
    \/ \E c \in Conns : WorkerWrite(c)
    \/ CMQueryTrivial
    \/ CMQueryHit
    \/ CMQueryMiss
    \/ CMExtractOk
    \/ CMExtractErr
    \/ SendInvalidate
    \/ CMInvalidate

SpecInv == Init /\ [][NextInv]_vars

\* ------------------------------------------------- BronziteClient::query
\* What a client asks for.
ClientRequests ==
    {<<"", "Ping">>, <<"", "Shutdown">>} \cup {<<u, q>> : u \in Units, q \in SnapQueries}

\* line 140: the response's id against the request's.
IdMatchesAlways(got, want) == TRUE
IdMatches(got, want) == got = want

\* lines 137-151: what query() makes of the response line it read.
Interpret(line, want) ==
    IF ~line.ok THEN Outcome("SerializationError", "None", 0, 0)
    ELSE IF ~IdMatches(line.id, want) THEN Outcome("ResponseMismatch", "None", want, line.id)
    ELSE IF IsError(line.result) THEN Outcome("DaemonError", line.result, 0, 0)
    ELSE Outcome("Ok", line.result, 0, 0)

\* Whether the other end of connection c has closed it.
ServerClosed(c) == wpc[c] \in {"closed", "fclosed"}

\* A query() that reads REQUEST_ID without advancing it.
ClientSendSameId(c) ==
    /\ cpc[c] = "idle"
    /\ wpc[c] # "none"
    /\ ~ServerClosed(c)
    /\ LinesSent < MaxLines
    /\ \E r \in ClientRequests :
           sent' = [sent EXCEPT ![c] = Append(@, MkLine("req", nextId, r[1], r[2]))]
    /\ cid' = [cid EXCEPT ![c] = nextId]
    /\ cpc' = [cpc EXCEPT ![c] = "await"]
    /\ UNCHANGED <<rd, peer, wpc, wreq, wres, outbuf, queue, cmpc, cmcur, cache, reply,
                   calls, fails, running, mainpc, invals, nextId, cout, crd, ensureVars,
                   libVars>>

\* lines 118-130: the id is drawn from REQUEST_ID and the request written.
ClientSend(c) ==
    /\ cpc[c] = "idle"
    /\ wpc[c] # "none"
    /\ ~ServerClosed(c)
    /\ LinesSent < MaxLines
    /\ \E r \in ClientRequests :
           sent' = [sent EXCEPT ![c] = Append(@, MkLine("req", nextId, r[1], r[2]))]
    /\ cid' = [cid EXCEPT ![c] = nextId]
    /\ nextId' = nextId + 1
    /\ cpc' = [cpc EXCEPT ![c] = "await"]
    /\ UNCHANGED <<rd, peer, wpc, wreq, wres, outbuf, queue, cmpc, cmcur, cache,
                   reply, calls, fails, running, mainpc, invals, cout, crd, ensureVars, libVars>>

\* lines 129-130: write_all fails on a stream the other end has closed; the
\* caller gives the handle up.
ClientSendFailed(c) ==
    /\ cpc[c] = "idle"
    /\ ServerClosed(c)
    /\ nextId' = nextId + 1
    /\ cout' = [cout EXCEPT ![c] = Outcome("ConnectionFailed", "None", 0, 0)]
    /\ cpc' = [cpc EXCEPT ![c] = "failed"]
    /\ UNCHANGED <<daemonVars, cid, crd, ensureVars, libVars>>

\* lines 133-151: one line is read through a BufReader made for this call;
\* what else the reader had buffered is dropped with it.
ClientRecv(c) ==
    /\ cpc[c] = "await"
    /\ crd[c] < Len(outbuf[c])
    /\ \E n \in (crd[c] + 1)..Len(outbuf[c]) : crd' = [crd EXCEPT ![c] = n]
    /\ cout' = [cout EXCEPT ![c] = Interpret(outbuf[c][crd[c] + 1], cid[c])]
    /\ cpc' = [cpc EXCEPT ![c] = "idle"]
    /\ UNCHANGED <<daemonVars, nextId, cid, ensureVars, libVars>>

\* lines 135-137: end of stream reads as an empty line, which does not decode.
ClientRecvEOF(c) ==
    /\ cpc[c] = "await"
    /\ crd[c] = Len(outbuf[c])
    /\ ServerClosed(c)
    /\ cout' = [cout EXCEPT ![c] = Interpret(Garbage, cid[c])]
    /\ cpc' = [cpc EXCEPT ![c] = "idle"]
    /\ UNCHANGED <<daemonVars, nextId, cid, crd, ensureVars, libVars>>

\* The handle is dropped: the stream closes.
ClientDrop(c) ==
    /\ cpc[c] = "idle"
    /\ peer[c] = "open"
    /\ peer' = [peer EXCEPT ![c] = "closed"]
    /\ cpc' = [cpc EXCEPT ![c] = "dropped"]
    /\ UNCHANGED <<sent, rd, wpc, wreq, wres, outbuf, queue, cmpc, cmcur, cache,
                   reply, calls, fails, running, mainpc, invals, nextId, cid, cout,
                   crd, ensureVars, libVars>>

\* Connection 1 belongs to a BronziteClient; each other one belongs to a
\* second handle of the same client process (the handles share REQUEST_ID)
\* or to a peer that writes what it likes.
InitClient ==
    /\ InitDaemon
    /\ InitNoEnsure
    /\ InitNoLib
    /\ nextId = 1
    /\ cpc \in {f \in [Conns -> {"idle", "raw"}] : f[1] = "idle"}
    /\ cid = [c \in Conns |-> 0]
    /\ cout = [c \in Conns |-> NoOutcome]
    /\ crd = [c \in Conns |-> 0]

NextClient ==
    \/ Next
    \/ \E c \in Conns : ClientSend(c)
    \/ \E c \in Conns : ClientSendFailed(c)
    \/ \E c \in Conns : ClientRecv(c)
    \/ \E c \in Conns : ClientRecvEOF(c)
    \/ \E c \in Conns : ClientDrop(c)

SpecClient == InitClient /\ [][NextClient]_vars

\* ------------------------------------------- query() against any peer
\* What a peer that is not this daemon may write back.
PeerIds == {0, 1, 2}
PeerLines == {Garbage} \cup {MkResp(i, r) : i \in PeerIds, r \in {"Pong", "ErrOther"}}

ForeignWrite(c) ==
    /\ wpc[c] = "foreign"
    /\ Len(outbuf[c]) < MaxPeerLines
    /\ \E l \in PeerLines : outbuf' = [outbuf EXCEPT ![c] = Append(@, l)]
    /\ UNCHANGED <<sent, rd, peer, wpc, wreq, wres, queue, cmpc, cmcur, cache, reply,
                   calls, fails, running, mainpc, invals, clientVars, ensureVars, libVars>>

ForeignClose(c) ==
    /\ wpc[c] = "foreign"
    /\ wpc' = [wpc EXCEPT ![c] = "fclosed"]
    /\ UNCHANGED <<sent, rd, peer, wreq, wres, outbuf, queue, cmpc, cmcur, cache,
                   reply, calls, fails, running, mainpc, invals, clientVars, ensureVars, libVars>>

\* Connection 1 is a BronziteClient connected to a socket some other process
\* listens on; no daemon of this program runs.
InitQuery ==
    /\ InitNoEnsure
    /\ InitNoLib
    /\ sent = [c \in Conns |-> <<>>]
    /\ rd = [c \in Conns |-> 0]
    /\ peer = [c \in Conns |-> "open"]
    /\ wpc = [c \in Conns |-> IF c = 1 THEN "foreign" ELSE "none"]
    /\ wreq = [c \in Conns |-> NoReq]
    /\ wres = [c \in Conns |-> "None"]
    /\ outbuf = [c \in Conns |-> <<>>]
    /\ queue = <<>>
    /\ cmpc = "stopped"
    /\ cmcur = NoMsg
    /\ cache = EmptyCache
    /\ reply = [c \in Conns |-> "None"]
    /\ calls = [u \in Units |-> 0]
    /\ fails = [u \in Units |-> 0]
    /\ running = FALSE
    /\ mainpc = "exited"
    /\ invals = 0
    /\ nextId = 1
    /\ cpc = [c \in Conns |-> IF c = 1 THEN "idle" ELSE "raw"]
    /\ cid = [c \in Conns |-> 0]
    /\ cout = [c \in Conns |-> NoOutcome]
    /\ crd = [c \in Conns |-> 0]

NextQuery ==
    \/ \E c \in Conns : ClientSend(c)
    \/ \E c \in Conns : ClientSendFailed(c)
    \/ \E c \in Conns : ClientRecv(c)
    \/ \E c \in Conns : ClientRecvEOF(c)
    \/ \E c \in Conns : ClientDrop(c)
    \/ \E c \in Conns : ForeignWrite(c)
    \/ \E c \in Conns : ForeignClose(c)

SpecQuery == InitQuery /\ [][NextQuery]_vars

\* ------------------------------------------------------ ensure protocol
\* main line 698: whether startup finds a socket file to clean up.
StartupFindsNever(s) == FALSE
StartupFinds(s) == s # "none"

\* The workspace each client passes as --manifest-path (client lib.rs lines
\* 470-472), which --ensure hands on to the daemon it spawns (main.rs lines
\* 593-594). No --socket is passed, so every process takes
\* default_socket_path() (client line 459, main.rs lines 641-644, 692-695):
\* the one path that sock describes.
ManifestPath == [p1 |-> "/ws/a", p2 |-> "/ws/b"]

\* A daemon whose listener is bound, and one whose accept loop runs.
Listening(d) == dpc[d] \in {"listen", "serve"}

\* The outcome of a probe: is_daemon_running returned true, or false.
ProbeTrue(e) ==
    /\ epc' = [epc EXCEPT ![e] = "ok"]
    /\ econn' = [econn EXCEPT ![e] = "none"]
    /\ UNCHANGED <<ephase, dpc, sock>>

\* After false, ensure_daemon_running goes on to spawn (line 662) and
\* wait_for_daemon_ready sleeps and loops (line 630).
ProbeFalse(e) ==
    /\ epc' = [epc EXCEPT ![e] = IF ephase[e] = "check" THEN "spawn" ELSE "loop"]
    /\ econn' = [econn EXCEPT ![e] = "none"]
    /\ UNCHANGED <<ephase, dpc, sock>>

\* is_daemon_running lines 553-555: the socket path does not exist.
ProbeNoFile(e) ==
    /\ epc[e] = "exists"
    /\ sock = "none"
    /\ ProbeFalse(e)
    /\ UNCHANGED <<daemonVars, clientVars, libVars, ecode>>

ProbeFileExists(e) ==
    /\ epc[e] = "exists"
    /\ sock # "none"
    /\ epc' = [epc EXCEPT ![e] = "connect"]
    /\ UNCHANGED <<daemonVars, clientVars, libVars, ecode, ephase, econn, dpc, sock>>

\* lines 558-570: connect to the listener the path names and write the ping.
ProbeConnect(e) ==
    /\ epc[e] = "connect"
    /\ sock \in Callers
    /\ Listening(sock)
    /\ epc' = [epc EXCEPT ![e] = "wait"]
    /\ econn' = [econn EXCEPT ![e] = sock]
    /\ UNCHANGED <<daemonVars, clientVars, libVars, ecode, ephase, dpc, sock>>

\* line 581: no file any more, or no listener behind it.
ProbeRefused(e) ==
    /\ epc[e] = "connect"
    /\ ~(sock \in Callers /\ Listening(sock))
    /\ ProbeFalse(e)
    /\ UNCHANGED <<daemonVars, clientVars, libVars, ecode>>

\* lines 572-576: the daemon's worker answers the ping (WorkerRead,
\* CMQueryTrivial, WorkerWrite of Spec): the line read contains "pong".
ProbePong(e) ==
    /\ epc[e] = "wait"
    /\ dpc[econn[e]] = "serve"
    /\ ProbeTrue(e)
    /\ UNCHANGED <<daemonVars, clientVars, libVars, ecode>>

\* A spawn that hands --ensure on: the child runs the ensure protocol from
\* its first probe instead of serving.
SpawnWithEnsure(e) ==
    /\ epc[e] = "spawn"
    /\ dpc' = [dpc EXCEPT ![e] = "start"]
    /\ epc' = [epc EXCEPT ![e] = "exists"]
    /\ UNCHANGED <<daemonVars, clientVars, libVars, ecode, ephase, econn, sock>>

\* ensure_daemon_running line 662 with spawn_daemon_background.
Spawn(e) ==
    /\ epc[e] = "spawn"
    /\ dpc' = [dpc EXCEPT ![e] = "start"]
    /\ epc' = [epc EXCEPT ![e] = "loop"]
    /\ ephase' = [ephase EXCEPT ![e] = "poll"]
    /\ UNCHANGED <<daemonVars, clientVars, libVars, ecode, econn, sock>>

\* spawn_daemon_background lines 588, 616 return Err.
SpawnFailed(e) ==
    /\ epc[e] = "spawn"
    /\ epc' = [epc EXCEPT ![e] = "spawnfail"]
    /\ UNCHANGED <<daemonVars, clientVars, libVars, ecode, ephase, econn, dpc, sock>>

\* wait_for_daemon_ready line 626: time is left, probe again.
PollAgain(e) ==
    /\ epc[e] = "loop"
    /\ epc' = [epc EXCEPT ![e] = "exists"]
    /\ UNCHANGED <<daemonVars, clientVars, libVars, ecode, ephase, econn, dpc, sock>>

\* lines 626, 633: the timeout has elapsed.
PollTimedOut(e) ==
    /\ epc[e] = "loop"
    /\ epc' = [epc EXCEPT ![e] = "timeout"]
    /\ UNCHANGED <<daemonVars, clientVars, libVars, ecode, ephase, econn, dpc, sock>>

\* A main that leaves with status 0 whatever ensure_daemon_running returned.
EnsureExitZero(e) ==
    /\ epc[e] \in {"ok", "spawnfail", "timeout"}
    /\ ecode[e] = NoExit
    /\ ecode' = [ecode EXCEPT ![e] = [code |-> 0, diag |-> FALSE]]
    /\ UNCHANGED <<daemonVars, clientVars, libVars, epc, ephase, econn, dpc, sock>>

\* main lines 680-689: exit(0) on Ok; on Err the error is printed and the
\* process leaves with exit(1).
EnsureExit(e) ==
    /\ epc[e] \in {"ok", "spawnfail", "timeout"}
    /\ ecode[e] = NoExit
    /\ ecode' = [ecode EXCEPT ![e] = IF epc[e] = "ok" THEN [code |-> 0, diag |-> FALSE]
                                                      ELSE [code |-> 1, diag |-> TRUE]]
    /\ UNCHANGED <<daemonVars, clientVars, libVars, epc, ephase, econn, dpc, sock>>

\* ensure_daemon_running_with_timeout (client lib.rs lines 455-501). Its
\* first check (line 462) found no daemon: none runs in the initial state,
\* where each client starts its --ensure process. Lines 480-485: the process
\* could not be run at all.
ClientRunFailed(e) ==
    /\ epc[e] = "exists"
    /\ ephase[e] = "check"
    /\ output[e] = "None"
    /\ epc' = [epc EXCEPT ![e] = "norun"]
    /\ output' = [output EXCEPT ![e] = "DaemonStartFailed"]
    /\ UNCHANGED <<daemonVars, clientVars, input, ecode, ephase, econn, dpc, sock>>

\* A client that reports every failure of the --ensure process as a timeout.
ClientReturnTimeout(e) ==
    /\ ecode[e] # NoExit
    /\ output[e] = "None"
    /\ output' = [output EXCEPT ![e] =
                    IF ecode[e].code = 0 /\ sock \in Callers /\ dpc[sock] = "serve"
                    THEN "Ok" ELSE "DaemonStartTimeout"]
    /\ UNCHANGED <<daemonVars, clientVars, input, ensureVars>>

\* Lines 487-500: the process has left. A status other than 0 is
\* DaemonStartFailed with the process's stderr; after status 0 the client's
\* own check decides: a serving daemon answers the ping, a daemon that is
\* bound but not yet serving answers within the read timeout or not, and
\* anything else is no running daemon.
ClientReturn(e) ==
    /\ ecode[e] # NoExit
    /\ output[e] = "None"
    /\ \E r \in IF ecode[e].code # 0 THEN {"DaemonStartFailed"}
                 ELSE IF sock \in Callers /\ dpc[sock] = "serve" THEN {"Ok"}
                 ELSE IF sock \in Callers /\ dpc[sock] = "listen"
                      THEN {"Ok", "DaemonStartTimeout"}
                 ELSE {"DaemonStartTimeout"} :
            output' = [output EXCEPT ![e] = r]
    /\ UNCHANGED <<daemonVars, clientVars, input, ensureVars>>

\* main lines 697-702: an existing socket file is removed (a failure to
\* remove it is only warned about).
DaemonCleanup(d) ==
    /\ dpc[d] = "start"
    /\ StartupFinds(sock)
    /\ dpc' = [dpc EXCEPT ![d] = "remove"]
    /\ UNCHANGED <<daemonVars, clientVars, libVars, ecode, epc, ephase, econn, sock>>

DaemonNoCleanup(d) ==
    /\ dpc[d] = "start"
    /\ ~StartupFinds(sock)
    /\ dpc' = [dpc EXCEPT ![d] = "bind"]
    /\ UNCHANGED <<daemonVars, clientVars, libVars, ecode, epc, ephase, econn, sock>>

DaemonRemove(d) ==
    /\ dpc[d] = "remove"
    /\ sock' = "none"
    /\ dpc' = [dpc EXCEPT ![d] = "bind"]
    /\ UNCHANGED <<daemonVars, clientVars, libVars, ecode, epc, ephase, econn>>

\* lines 705-706: bind creates the socket file.
DaemonBind(d) ==
    /\ dpc[d] = "bind"
    /\ sock = "none"
    /\ sock' = d
    /\ dpc' = [dpc EXCEPT ![d] = "listen"]
    /\ UNCHANGED <<daemonVars, clientVars, libVars, ecode, epc, ephase, econn>>

\* lines 707-710: the path is taken; exit(1).
DaemonBindFailed(d) ==
    /\ dpc[d] = "bind"
    /\ sock # "none"
    /\ dpc' = [dpc EXCEPT ![d] = "exited"]
    /\ UNCHANGED <<daemonVars, clientVars, libVars, ecode, epc, ephase, econn, sock>>

\* lines 717-756: the threads are up and the accept loop runs.
DaemonServe(d) ==
    /\ dpc[d] = "listen"
    /\ dpc' = [dpc EXCEPT ![d] = "serve"]
    /\ UNCHANGED <<daemonVars, clientVars, libVars, ecode, epc, ephase, econn, sock>>

CallerStep(e) ==
    \/ ProbeNoFile(e)
    \/ ProbeFileExists(e)
    \/ ProbeConnect(e)
    \/ ProbeRefused(e)
    \/ ProbePong(e)
    \/ Spawn(e)
    \/ PollAgain(e)
    \/ EnsureExit(e)
    \/ ClientReturn(e)

DaemonStep(d) ==
    \/ DaemonCleanup(d)
    \/ DaemonNoCleanup(d)
    \/ DaemonRemove(d)
    \/ DaemonBind(d)
    \/ DaemonBindFailed(d)
    \/ DaemonServe(d)

\* No daemon runs; the socket path is free or holds a file left behind.
InitEnsure ==
    /\ InitDaemon
    /\ InitNoClient
    /\ input = <<>>
    /\ output = [e \in Callers |-> "None"]
    /\ ecode = [e \in Callers |-> NoExit]
    /\ epc = [e \in Callers |-> "exists"]
    /\ ephase = [e \in Callers |-> "check"]
    /\ econn = [e \in Callers |-> "none"]
    /\ dpc = [e \in Callers |-> "none"]
    /\ sock \in {"none", "stale"}

NextEnsure ==
    \/ \E e \in Callers : ProbeNoFile(e)
    \/ \E e \in Callers : ProbeFileExists(e)
    \/ \E e \in Callers : ProbeConnect(e)
    \/ \E e \in Callers : ProbeRefused(e)
    \/ \E e \in Callers : ProbePong(e)
    \/ \E e \in Callers : Spawn(e)
    \/ \E e \in Callers : SpawnFailed(e)
    \/ \E e \in Callers : PollAgain(e)
    \/ \E e \in Callers : PollTimedOut(e)
    \/ \E e \in Callers : EnsureExit(e)
    \/ \E e \in Callers : ClientRunFailed(e)
    \/ \E e \in Callers : ClientReturn(e)
    \/ \E d \in Callers : DaemonCleanup(d)
    \/ \E d \in Callers : DaemonNoCleanup(d)
    \/ \E d \in Callers : DaemonRemove(d)
    \/ \E d \in Callers : DaemonBind(d)
    \/ \E d \in Callers : DaemonBindFailed(d)
    \/ \E d \in Callers : DaemonServe(d)

\* Every process that can take a step is scheduled: each caller and each
\* spawned daemon is an operating-system process of its own.
SpecEnsure ==
    /\ InitEnsure
    /\ [][NextEnsure]_vars
    /\ \A e \in Callers : WF_vars(CallerStep(e))
    /\ \A d \in Callers : WF_vars(DaemonStep(d))

\* The callers alone are scheduled, and their clock advances: a caller that
\* keeps coming back to the test of line 626 finds the timeout elapsed at
\* some visit.  A process bound to the socket path is under no obligation:
\* the kernel completes a connection to a bound listener whether or not
\* its process ever accepts it or answers on it.
SpecEnsureCallers ==
    /\ InitEnsure
    /\ [][NextEnsure]_vars
    /\ \A e \in Callers : WF_vars(CallerStep(e))
    /\ \A e \in Callers : SF_vars(PollTimedOut(e))

\* ------------------------------------------------------------- strings
\* A string is the sequence of its characters.
\* str::starts_with, str::ends_with, str::contains.
StartsWith(s, p) == Len(p) <= Len(s) /\ SubSeq(s, 1, Len(p)) = p
EndsWith(s, p) == Len(p) <= Len(s) /\ SubSeq(s, Len(s) - Len(p) + 1, Len(s)) = p
Contains(s, p) == \E i \in 0..(Len(s) - Len(p)) : SubSeq(s, i + 1, i + Len(p)) = p

\* str::trim: the string without its leading and trailing white space.
Trim(s) ==
    LET inked == {i \in 1..Len(s) : s[i] # " "} IN
    IF inked = {} THEN <<>>
    ELSE SubSeq(s, CHOOSE i \in inked : \A j \in inked : i <= j,
                   CHOOSE i \in inked : \A j \in inked : i >= j)

\* str::split(ch): the parts between the occurrences of ch.
RECURSIVE Split(_, _)
Split(s, ch) ==
    LET at == {i \in 1..Len(s) : s[i] = ch} IN
    IF at = {} THEN <<s>>
    ELSE LET i == CHOOSE k \in at : \A j \in at : k <= j IN
         <<SubSeq(s, 1, i - 1)>> \o Split(SubSeq(s, i + 1, Len(s)), ch)

\* The path separator.
Sep == <<":", ":">>

\* ------------------------------------------- path_matches_pattern
\* types lib.rs lines 797-798: the prefix itself and everything below it.
MatchesRecursiveNoSep(path, prefix) == path = prefix \/ StartsWith(path, prefix)
MatchesRecursive(path, prefix) ==
    path = prefix \/ StartsWith(path, prefix \o Sep)

\* lines 803-808: below the prefix, with no further separator.
MatchesOneLevelAnyDepth(path, prefix) == StartsWith(path, prefix \o Sep)
MatchesOneLevel(path, prefix) ==
    IF ~StartsWith(path, prefix \o Sep) THEN FALSE
    ELSE ~Contains(SubSeq(path, Len(prefix) + 3, Len(path)), Sep)

\* lines 813-817: one wildcard; the parts before and after it.
MatchesWildcard(path, pattern) ==
    LET parts == Split(pattern, "*") IN
    IF Len(parts) # 2 THEN FALSE
    ELSE StartsWith(path, parts[1]) /\ EndsWith(path, parts[2])

\* lines 791-822.
path_matches_pattern(path0, pattern0) ==
    LET pattern == Trim(pattern0)
        path == Trim(path0)
    IN  IF EndsWith(pattern, Sep \o <<"*", "*">>)
        THEN MatchesRecursive(path, SubSeq(pattern, 1, Len(pattern) - 4))
        ELSE IF EndsWith(pattern, Sep \o <<"*">>)
        THEN MatchesOneLevel(path, SubSeq(pattern, 1, Len(pattern) - 3))
        ELSE IF Contains(pattern, <<"*">>)
        THEN MatchesWildcard(path, pattern)
        ELSE path = pattern

\* The strings under study: up to n pieces (a name, the separator, a star),
\* as they are or behind a blank.
RECURSIVE Texts(_)
Texts(n) ==
    IF n = 0 THEN {<<>>, <<" ">>}
    ELSE LET B == Texts(n - 1) IN
         B \cup {b \o p : b \in B, p \in {<<"a">>, Sep, <<"*">>}}
Paths == Texts(MaxPathPieces)
Patterns == Texts(MaxPatternPieces)

InitPattern ==
    /\ InitDaemon
    /\ InitNoClient
    /\ InitNoEnsure
    /\ input \in [pattern : Patterns]
    /\ output = <<>>

\* main.rs lines 369-372 (FindTypes): the matcher is called on every type
\* path of the snapshot, here on every path under study; what passes the
\* filter is the answer.
FindTypes ==
    /\ output = <<>>
    /\ output' = <<{p \in Paths : path_matches_pattern(p, input.pattern)}>>
    /\ UNCHANGED <<daemonVars, clientVars, ensureVars, input>>

SpecPattern == InitPattern /\ [][FindTypes]_vars

\* --------------------------------------- execute_query: the resolver
\* The names under study.
Name ==
    LET pkg == <<"p", "k", "g">> \o Sep
        foo == <<"F", "o", "o">>
        notfoo == <<"N", "o", "t">> \o foo
        modfoo == <<"m", "o", "d">> \o Sep \o foo
    IN  [Foo |-> foo, NotFoo |-> notfoo, Oo |-> <<"o", "o">>, ModFoo |-> modfoo,
         PkgModFoo |-> pkg \o modfoo, PkgNotFoo |-> pkg \o notfoo,
         Tr |-> <<"T", "r">>, PkgTr |-> pkg \o <<"T", "r">>,
         Al |-> <<"A", "l">>, PkgAl |-> pkg \o <<"A", "l">>,
         PkgGen |-> pkg \o <<"G">>, PkgGenT |-> pkg \o <<"G", "<", "T", ">">>]

\* CrateTypeInfo as the extractor builds it (bronzite-query lib.rs lines
\* 526-587): types, traits and aliases are keyed by their own path, a layout
\* is stored only with its type, and an impl map holds a key only with at
\* least one impl under it. An impl is named by its self type and trait.
\* A key can be the tail of another key: two types of the same name, one in
\* a module of the other's name space (mod::Foo and pkg::mod::Foo).
Snapshots ==
    {[types |-> ts, layouts |-> ls, traits |-> trs, type_aliases |-> als,
      trait_impls |-> tis, inherent_impls |-> iis] :
        ts \in SUBSET {Name.PkgModFoo, Name.PkgNotFoo, Name.ModFoo},
        ls \in {{}, {Name.PkgModFoo}},
        trs \in SUBSET {Name.PkgTr},
        als \in SUBSET {Name.PkgAl},
        tis \in SUBSET ({Name.PkgModFoo, Name.PkgGenT, Name.ModFoo} \X {Name.PkgTr}),
        iis \in SUBSET {Name.PkgModFoo, Name.ModFoo}}

\* QueryResult.
Success(t, d) == [status |-> "success", type |-> t, data |-> d]
NotFound(what, path) == [status |-> "error", type |-> what, data |-> path]

\* map.get(&path).or_else(|| map.values().find(|t| t.path.ends_with("::path"))):
\* the values this can yield (find takes the first match in the map's
\* iteration order, which is any of the matches).
LookupSubstring(keys, path) ==
    IF path \in keys THEN {path} ELSE {k \in keys : EndsWith(k, path)}
Lookup(keys, path) ==
    IF path \in keys THEN {path} ELSE {k \in keys : EndsWith(k, Sep \o path)}

\* main.rs lines 231-248, 295-314, 348-365, 386-407.
Found(keys, path, what, payload) ==
    IF Lookup(keys, path) = {} THEN {NotFound(what, path)}
    ELSE {Success(payload, k) : k \in Lookup(keys, path)}

\* lines 316-326: the layout map is read by exact key only.
GetLayout(info, path) ==
    IF path \in info.layouts THEN {Success("layout", path)}
    ELSE {NotFound("Layout", path)}

\* lines 250-272: the impls under the exact key and under every other key
\* that ends with ::type_path or whose text before the first < is type_path.
GetTraitImpls(info, path) ==
    {Success("trait_impls",
        {i \in info.trait_impls :
            \/ i[1] = path
            \/ EndsWith(i[1], Sep \o path)
            \/ Split(i[1], "<")[1] = path})}

\* lines 274-293.
GetInherentImpls(info, path) ==
    {Success("inherent_impls",
        {k \in info.inherent_impls : k = path \/ EndsWith(k, Sep \o path)})}

\* lines 454-475 (check_impl_from_cache) and 409-420: the first impl, in the
\* map's iteration order, whose key and trait both match.
CheckImpl(info, type_path, trait_path) ==
    LET hits == {i \in info.trait_impls :
                    /\ i[1] = type_path \/ EndsWith(i[1], Sep \o type_path)
                    /\ i[2] = trait_path \/ EndsWith(i[2], Sep \o trait_path)}
    IN  IF hits = {}
        THEN {Success("impl_check", [implements |-> FALSE, impl_info |-> <<>>])}
        ELSE {Success("impl_check", [implements |-> TRUE, impl_info |-> <<i>>]) : i \in hits}

\* lines 422-447: the types, present in the type map, with an impl of the trait.
GetImplementors(info, trait_path) ==
    {Success("implementors",
        {i[1] : i \in {j \in info.trait_impls :
                        /\ j[2] = trait_path \/ EndsWith(j[2], Sep \o trait_path)
                        /\ j[1] \in info.types}})}

\* The queries under study: the variant and its path arguments.
MkQuery(t, p, tp) == [type |-> t, path |-> p, trait_path |-> tp]
ResolverQueries ==
    {MkQuery(t, p, <<>>) :
        t \in {"get_type", "get_fields", "get_layout", "get_trait", "resolve_alias",
               "get_trait_impls", "get_inherent_impls", "get_implementors"},
        p \in {Name.PkgModFoo, Name.ModFoo, Name.Foo, Name.NotFoo, Name.Oo,
               Name.PkgTr, Name.Tr, Name.PkgAl, Name.Al, Name.PkgGen}}
    \cup {MkQuery("check_impl", p, tp) :
        p \in {Name.PkgModFoo, Name.ModFoo, Name.Foo, Name.NotFoo, Name.PkgGenT, Name.PkgGen},
        tp \in {Name.PkgTr, Name.Tr, Name.Oo}}
    \cup {MkQuery("find_types", p, <<>>) :
        p \in {<<"p", "k", "g", ":", ":", "*">>, <<"p", "k", "g", ":", ":", "*", "*">>}}
    \cup {MkQuery(t, <<>>, <<>>) : t \in {"list_items", "get_traits"}}

\* lines 224-450: the results the match can produce for a query.
ExecuteSpecific(info, q) ==
    CASE q.type = "get_type" -> Found(info.types, q.path, "Type", "type_info")
      [] q.type = "get_fields" -> Found(info.types, q.path, "Type", "fields")
      [] q.type = "get_layout" -> GetLayout(info, q.path)
      [] q.type = "get_trait" -> Found(info.traits, q.path, "Trait", "trait_details")
      [] q.type = "resolve_alias" -> Found(info.type_aliases, q.path, "Type alias", "resolved_type")
      [] q.type = "get_trait_impls" -> GetTraitImpls(info, q.path)
      [] q.type = "get_inherent_impls" -> GetInherentImpls(info, q.path)
      [] q.type = "check_impl" -> CheckImpl(info, q.path, q.trait_path)
      [] q.type = "get_implementors" -> GetImplementors(info, q.path)
      [] q.type = "find_types" ->
            {Success("types", {t \in info.types : path_matches_pattern(t, q.path)})}
      [] q.type = "list_items" ->
            {Success("items", info.types \cup info.traits \cup info.type_aliases)}
      [] q.type = "get_traits" -> {Success("traits", info.traits)}

InitResolve ==
    /\ InitDaemon
    /\ InitNoClient
    /\ InitNoEnsure
    /\ input \in {[info |-> i, query |-> q] :
                    i \in {s \in Snapshots : s.layouts \subseteq s.types},
                    q \in ResolverQueries}
    /\ output = <<>>

\* execute_query on a snapshot that is in the cache.
Execute ==
    /\ output = <<>>
    /\ \E r \in ExecuteSpecific(input.info, input.query) : output' = <<r>>
    /\ UNCHANGED <<daemonVars, clientVars, ensureVars, input>>

SpecResolve == InitResolve /\ [][Execute]_vars

\* ------------------------------------------------- the wire encoding
\* The serde shape of the protocol's types (types lib.rs): str, bool and
\* integer leaves, Option, Vec, struct, the enums of unit variants, and the
\* internally tagged enums (#[serde(tag = ...)]) with their variant names in
\* snake case. A Vec whose element type is not listed here ("never") is
\* studied empty only.
Ty ==
    LET Leaf(k) == [k |-> k]
        Opt(T) == [k |-> "opt", of |-> T]
        Vec(T) == [k |-> "seq", of |-> T]
        Struct(fs) == [k |-> "struct", fields |-> fs]
        Ref(n) == [k |-> "ref", name |-> n]
    IN
    [Request |-> Struct([id |-> Leaf("int"), crate_name |-> Leaf("str"), query |-> Ref("Query")]),
     Query |-> [k |-> "tagged", tag |-> "type", variants |->
        [ListItems |-> [tag |-> "list_items", body |-> Struct(<<>>)],
         GetType |-> [tag |-> "get_type", body |-> Struct([path |-> Leaf("str")])],
         GetTraitImpls |-> [tag |-> "get_trait_impls", body |-> Struct([type_path |-> Leaf("str")])],
         GetInherentImpls |-> [tag |-> "get_inherent_impls", body |-> Struct([type_path |-> Leaf("str")])],
         GetFields |-> [tag |-> "get_fields", body |-> Struct([type_path |-> Leaf("str")])],
         GetLayout |-> [tag |-> "get_layout", body |-> Struct([type_path |-> Leaf("str")])],
         GetTraits |-> [tag |-> "get_traits", body |-> Struct(<<>>)],
         GetTrait |-> [tag |-> "get_trait", body |-> Struct([path |-> Leaf("str")])],
         FindTypes |-> [tag |-> "find_types", body |-> Struct([pattern |-> Leaf("str")])],
         ResolveAlias |-> [tag |-> "resolve_alias", body |-> Struct([path |-> Leaf("str")])],
         CheckImpl |-> [tag |-> "check_impl", body |->
            Struct([type_path |-> Leaf("str"), trait_path |-> Leaf("str")])],
         GetImplementors |-> [tag |-> "get_implementors", body |-> Struct([trait_path |-> Leaf("str")])],
         Ping |-> [tag |-> "ping", body |-> Struct(<<>>)],
         Shutdown |-> [tag |-> "shutdown", body |-> Struct(<<>>)]]],
     Response |-> Struct([id |-> Leaf("int"), result |-> Ref("QueryResult")]),
     QueryResult |-> [k |-> "tagged", tag |-> "status", variants |->
        [Success |-> [tag |-> "success", body |-> Struct([data |-> Ref("QueryData")])],
         Error |-> [tag |-> "error", body |-> Struct([message |-> Leaf("str")])]]],
     QueryData |-> [k |-> "tagged", tag |-> "type", variants |->
        [Items |-> [tag |-> "items", body |-> Struct([items |-> Vec(Leaf("never"))])],
         TypeInfo |-> [tag |-> "type_info", body |-> Ref("TypeDetails")],
         TraitImpls |-> [tag |-> "trait_impls", body |-> Struct([impls |-> Vec(Leaf("never"))])],
         InherentImpls |-> [tag |-> "inherent_impls", body |-> Struct([impls |-> Vec(Leaf("never"))])],
         Fields |-> [tag |-> "fields", body |-> Struct([fields |-> Vec(Leaf("never"))])],
         Layout |-> [tag |-> "layout", body |-> Ref("LayoutInfo")],
         Traits |-> [tag |-> "traits", body |-> Struct([traits |-> Vec(Leaf("never"))])],
         TraitDetails |-> [tag |-> "trait_details", body |-> Ref("TraitDetails")],
         Types |-> [tag |-> "types", body |-> Struct([types |-> Vec(Ref("TypeSummary"))])],
         ResolvedType |-> [tag |-> "resolved_type", body |->
            Struct([original |-> Leaf("str"), resolved |-> Leaf("str"), chain |-> Vec(Leaf("str"))])],
         ImplCheck |-> [tag |-> "impl_check", body |->
            Struct([implements |-> Leaf("bool"), impl_info |-> Opt(Leaf("never"))])],
         Implementors |-> [tag |-> "implementors", body |-> Struct([types |-> Vec(Ref("TypeSummary"))])],
         Pong |-> [tag |-> "pong", body |-> Struct(<<>>)],
         ShuttingDown |-> [tag |-> "shutting_down", body |-> Struct(<<>>)]]],
     TypeSummary |-> Struct([name |-> Leaf("str"), path |-> Leaf("str"), kind |-> Leaf("unit"),
                             generics |-> Vec(Leaf("never"))]),
     TypeDetails |-> Struct([name |-> Leaf("str"), path |-> Leaf("str"), kind |-> Leaf("unit"),
        visibility |-> Leaf("unit"), generics |-> Vec(Leaf("never")),
        where_clause |-> Opt(Leaf("str")), docs |-> Opt(Leaf("str")),
        attributes |-> Vec(Leaf("str")), fields |-> Opt(Vec(Leaf("never"))),
        variants |-> Opt(Vec(Leaf("never"))), trait_impls |-> Vec(Leaf("str")),
        inherent_methods |-> Vec(Leaf("never")), layout |-> Opt(Ref("LayoutInfo")),
        source |-> Opt(Leaf("str")), span |-> Opt(Leaf("never"))]),
     LayoutInfo |-> Struct([size |-> Leaf("int"), align |-> Leaf("int"),
        field_offsets |-> Opt(Vec(Leaf("never"))), variants |-> Opt(Vec(Ref("VariantLayoutInfo"))),
        is_sized |-> Leaf("bool"), is_copy |-> Leaf("bool"), is_send |-> Leaf("bool"),
        is_sync |-> Leaf("bool")]),
     VariantLayoutInfo |-> Struct([name |-> Leaf("str"), discriminant |-> Opt(Leaf("i128")),
        fields |-> Vec(Leaf("never"))]),
     TraitDetails |-> Struct([name |-> Leaf("str"), path |-> Leaf("str"), visibility |-> Leaf("unit"),
        generics |-> Vec(Leaf("never")), where_clause |-> Opt(Leaf("str")),
        is_auto |-> Leaf("bool"), is_unsafe |-> Leaf("bool"), supertraits |-> Vec(Leaf("str")),
        methods |-> Vec(Leaf("never")), assoc_types |-> Vec(Leaf("never")),
        assoc_consts |-> Vec(Leaf("never")), docs |-> Opt(Leaf("str")),
        attributes |-> Vec(Leaf("str")), source |-> Opt(Leaf("str")),
        implementors |-> Vec(Leaf("str")), span |-> Opt(Leaf("never"))])]

\* Option values, and the Ok value and the Err of a decoding.
None == [some |-> FALSE]
Some(x) == [some |-> TRUE, v |-> x]

\* serde_json::to_string with the derived Serialize; a JSON value is
\* [k |-> kind, v |-> content]. An enum of unit variants is its name as a
\* string, an internally tagged variant is the object of its fields with the
\* tag entry added.
RECURSIVE Ser(_, _)
Ser(T, x) ==
    CASE T.k = "ref" -> Ser(Ty[T.name], x)
      [] T.k \in {"str", "unit"} -> [k |-> "str", v |-> x]
      [] T.k = "bool" -> [k |-> "bool", v |-> x]
      [] T.k \in {"int", "i128"} -> [k |-> "num", v |-> x]
      [] T.k = "opt" -> IF x.some THEN Ser(T.of, x.v) ELSE [k |-> "null", v |-> 0]
      [] T.k = "seq" -> [k |-> "arr", v |-> [i \in DOMAIN x |-> Ser(T.of, x[i])]]
      [] T.k = "struct" ->
            [k |-> "obj", v |-> [f \in DOMAIN T.fields |-> Ser(T.fields[f], x[f])]]
      [] T.k = "tagged" ->
            LET V == T.variants[x.variant] IN
            [k |-> "obj",
             v |-> (T.tag :> [k |-> "str", v |-> V.tag]) @@ Ser(V.body, x.body).v]

\* serde_json::from_str with the derived Deserialize: Some(value), or None
\* for an error. An internally tagged enum is decoded from a buffer of its
\* object (the tag is found first, and the variant is then decoded from the
\* buffered entries); everything below it is read from that buffer, which
\* holds no 128-bit integers.
RECURSIVE De(_, _, _)
De(T, j, buffered) ==
    CASE T.k = "ref" -> De(Ty[T.name], j, buffered)
      [] T.k \in {"str", "unit"} -> IF j.k = "str" THEN Some(j.v) ELSE None
      [] T.k = "bool" -> IF j.k = "bool" THEN Some(j.v) ELSE None
      [] T.k = "int" -> IF j.k = "num" THEN Some(j.v) ELSE None
      [] T.k = "i128" -> IF j.k = "num" /\ ~buffered THEN Some(j.v) ELSE None
      [] T.k = "opt" ->
            IF j.k = "null" THEN Some(None)
            ELSE LET d == De(T.of, j, buffered) IN IF d.some THEN Some(d) ELSE None
      [] T.k = "seq" ->
            IF j.k # "arr" THEN None
            ELSE LET ds == [i \in DOMAIN j.v |-> De(T.of, j.v[i], buffered)] IN
                 IF \A i \in DOMAIN ds : ds[i].some
                 THEN Some([i \in DOMAIN ds |-> ds[i].v]) ELSE None
      [] T.k = "struct" ->
            IF j.k # "obj" THEN None
            ELSE LET ds == [f \in DOMAIN T.fields |->
                              IF f \in DOMAIN j.v THEN De(T.fields[f], j.v[f], buffered)
                              ELSE IF T.fields[f].k = "opt" THEN Some(None) ELSE None]
                 IN  IF \A f \in DOMAIN ds : ds[f].some
                     THEN Some([f \in DOMAIN ds |-> ds[f].v]) ELSE None
      [] T.k = "tagged" ->
            IF j.k # "obj" \/ T.tag \notin DOMAIN j.v THEN None
            ELSE LET vs == {n \in DOMAIN T.variants :
                              j.v[T.tag] = [k |-> "str", v |-> T.variants[n].tag]} IN
                 IF vs = {} THEN None
                 ELSE LET n == CHOOSE n \in vs : TRUE
                          d == De(T.variants[n].body, j, TRUE)
                      IN  IF d.some THEN Some([variant |-> n, body |-> d.v]) ELSE None
      [] OTHER -> None

\* The messages under study: every query variant, every payload variant,
\* optional fields absent and present.
Messages ==
    LET Variant(n, b) == [variant |-> n, body |-> b]
        requests ==
            {[id |-> i, crate_name |-> c, query |-> q] :
                i \in {0, 1}, c \in {"", "a"},
                q \in {Variant(n, <<>>) : n \in {"ListItems", "GetTraits", "Ping", "Shutdown"}}
                   \cup {Variant(n, [path |-> p]) :
                            n \in {"GetType", "GetTrait", "ResolveAlias"}, p \in {"", "Foo"}}
                   \cup {Variant(n, [type_path |-> p]) :
                            n \in {"GetTraitImpls", "GetInherentImpls", "GetFields", "GetLayout"},
                            p \in {"", "Foo"}}
                   \cup {Variant("FindTypes", [pattern |-> p]) : p \in {"", "Foo"}}
                   \cup {Variant("GetImplementors", [trait_path |-> p]) : p \in {"", "Foo"}}
                   \cup {Variant("CheckImpl", [type_path |-> p, trait_path |-> t]) :
                            p \in {"", "Foo"}, t \in {"MyTrait"}}}
        layouts ==
            {[size |-> 8, align |-> 8, field_offsets |-> fo, variants |-> vs,
              is_sized |-> TRUE, is_copy |-> c, is_send |-> TRUE, is_sync |-> TRUE] :
                fo \in {None, Some(<<>>)}, c \in BOOLEAN,
                vs \in {None, Some(<<>>)} \cup
                       {Some(<<[name |-> "A", discriminant |-> d, fields |-> <<>>]>>) :
                            d \in {None, Some(1)}}}
        summary == [name |-> "Foo", path |-> "pkg::Foo", kind |-> "struct", generics |-> <<>>]
        strs == {None, Some("s")}
        payloads ==
            {Variant(n, <<>>) : n \in {"Pong", "ShuttingDown"}}
            \cup {Variant("Items", [items |-> <<>>]), Variant("Fields", [fields |-> <<>>]),
                  Variant("Traits", [traits |-> <<>>])}
            \cup {Variant(n, [impls |-> <<>>]) : n \in {"TraitImpls", "InherentImpls"}}
            \cup {Variant(n, [types |-> ts]) :
                    n \in {"Types", "Implementors"}, ts \in {<<>>, <<summary>>}}
            \cup {Variant("ResolvedType",
                          [original |-> "A", resolved |-> "u8", chain |-> <<"u8">>])}
            \cup {Variant("ImplCheck", [implements |-> b, impl_info |-> None]) : b \in BOOLEAN}
            \cup {Variant("Layout", l) : l \in layouts}
            \cup {Variant("TypeInfo",
                    [name |-> "Foo", path |-> "pkg::Foo", kind |-> "struct",
                     visibility |-> "public", generics |-> <<>>, where_clause |-> w,
                     docs |-> None, attributes |-> <<"a">>, fields |-> f, variants |-> None,
                     trait_impls |-> <<>>, inherent_methods |-> <<>>, layout |-> l,
                     source |-> w, span |-> None]) :
                        w \in strs, f \in {None, Some(<<>>)},
                        l \in {None} \cup {Some(x) : x \in {y \in layouts : ~y.is_copy}}}
            \cup {Variant("TraitDetails",
                    [name |-> "Tr", path |-> "pkg::Tr", visibility |-> "public",
                     generics |-> <<>>, where_clause |-> w, is_auto |-> FALSE,
                     is_unsafe |-> FALSE, supertraits |-> <<>>, methods |-> <<>>,
                     assoc_types |-> <<>>, assoc_consts |-> <<>>, docs |-> w,
                     attributes |-> <<>>, source |-> None, implementors |-> <<"pkg::Foo">>,
                     span |-> None]) : w \in strs}
        responses ==
            {[id |-> i, result |-> r] :
                i \in {0, 42},
                r \in {Variant("Error", [message |-> "Type 'Foo' not found"])}
                      \cup {Variant("Success", [data |-> d]) : d \in payloads}}
    IN  {[type |-> "Request", msg |-> m] : m \in requests}
        \cup {[type |-> "Response", msg |-> m] : m \in responses}

InitCodec ==
    /\ InitDaemon
    /\ InitNoClient
    /\ InitNoEnsure
    /\ input \in Messages
    /\ output = <<>>

\* The sender: serde_json::to_string (client lib.rs line 127, main.rs lines
\* 860, 890, 907).
Encode ==
    /\ output = <<>>
    /\ output' = <<Ser(Ty[input.type], input.msg)>>
    /\ UNCHANGED <<daemonVars, clientVars, ensureVars, input>>

\* The receiver: serde_json::from_str (main.rs line 851, client lib.rs line 137).
Decode ==
    /\ Len(output) = 1
    /\ output' = <<output[1], De(Ty[input.type], output[1], FALSE)>>
    /\ UNCHANGED <<daemonVars, clientVars, ensureVars, input>>

SpecCodec == InitCodec /\ [][Encode \/ Decode]_vars

\* ------------------------------------------------------ the liveness probe
\* is_daemon_running (main.rs lines 552-583) and is_daemon_running_at (client
\* lib.rs lines 378-413) against a socket path that names no file, a file
\* without a listener, or a listener; the ping is written or the write
\* fails; read_line fails (in the client also by its timeout) or yields a
\* line, which is empty at the end of the stream.
ProbeIgnoresReply(env) == env.file = "listener" /\ env.written /\ env.read.some
is_daemon_running(env) ==
    /\ env.file # "none"
    /\ env.file = "listener"
    /\ env.written
    /\ env.read.some
    /\ Contains(env.read.v, <<"p", "o", "n", "g">>)

InitProbe ==
    /\ InitDaemon
    /\ InitNoClient
    /\ InitNoEnsure
    /\ input \in [file : {"none", "stale", "listener"},
                  written : BOOLEAN,
                  read : {None} \cup
                         {Some(l) : l \in UNION {[1..n -> {"p", "o", "n", "g"}] :
                                                    n \in 0..MaxReplyLen}}]
    /\ output = <<>>

Probe ==
    /\ output = <<>>
    /\ output' = <<is_daemon_running(input)>>
    /\ UNCHANGED <<daemonVars, clientVars, ensureVars, input>>

SpecProbe == InitProbe /\ [][Probe]_vars

\* ------------------------------------------------ extract_json_objects
\* main.rs lines 478-518: one pass over the characters with the nesting
\* depth (an i32, which can go below zero), the start of the object being
\* read (0: None), and the two string flags.
extract_json_objects(s) ==
    LET step(st, i) ==
            LET ch == s[i] IN
            IF st.escape_next THEN [st EXCEPT !.escape_next = FALSE]
            ELSE IF ch = "\\" /\ st.in_string THEN [st EXCEPT !.escape_next = TRUE]
            ELSE IF ch = "\"" THEN [st EXCEPT !.in_string = ~@]
            ELSE IF ch = "{" /\ ~st.in_string
                 THEN [st EXCEPT !.start = IF st.depth = 0 THEN i ELSE @,
                                 !.depth = @ + 1]
            ELSE IF ch = "}" /\ ~st.in_string
                 THEN IF st.depth - 1 = 0 /\ st.start # 0
                      THEN [st EXCEPT !.depth = 0, !.start = 0,
                                      !.objects = Append(@, SubSeq(s, st.start, i))]
                      ELSE [st EXCEPT !.depth = @ - 1]
            ELSE st
        scan[i \in 0..Len(s)] ==
            IF i = 0
            THEN [objects |-> <<>>, depth |-> 0, start |-> 0,
                  in_string |-> FALSE, escape_next |-> FALSE]
            ELSE step(scan[i - 1], i)
    IN  scan[Len(s)].objects

\* compile_and_extract lines 164-189 on the extractor's standard output:
\* the objects the scan yields are decoded one by one; one that does not
\* decode is skipped (lines 181-185); the first one named crate_name ends
\* the loop (lines 174-177), and for an empty crate_name the last one that
\* decodes stays.  An object decodes as CrateTypeInfo when it is {u} or
\* {ux} for a unit u, its crate_name: two snapshots of the same unit differ.
compile_and_extract(crate_name, stdout) ==
    LET objs == extract_json_objects(stdout)
        decodes(o) == Len(o) \in {3, 4} /\ o[2] \in Units /\ (Len(o) = 4 => o[3] = "x")
        hits == {i \in 1..Len(objs) :
                    decodes(objs[i]) /\ (objs[i][2] = crate_name \/ crate_name = "")}
    IN  IF hits = {} THEN <<>>
        ELSE IF crate_name = "" THEN objs[CHOOSE i \in hits : \A j \in hits : i >= j]
        ELSE objs[CHOOSE i \in hits : \A j \in hits : i <= j]

\* The extractor's standard output (line 166): complete objects with text
\* before, between and after them.  The objects are snapshots of a unit,
\* objects that are no snapshot, a nested object, and objects with string
\* literals that hold braces, escaped quotes and escaped backslashes; the
\* text is anything but an opening brace.  A stream is <<text, object,
\* text>> or <<text, object, text, object, text>>.
Streams ==
    LET objects == {<<"{", "}">>, <<"{", "a", "}">>, <<"{", "a", "x", "}">>,
                    <<"{", "b", "}">>, <<"{", "{", "a", "}", "}">>,
                    <<"{", "\"", "}", "\"", "}">>, <<"{", "\"", "{", "\"", "}">>,
                    <<"{", "\"", "\\", "\"", "}", "\"", "}">>,
                    <<"{", "\"", "\\", "\\", "\"", "}">>}
        texts == UNION {[1..n -> {"x", "}", "\"", "\\"}] : n \in 0..MaxTextLen}
    IN  {<<t0, o1, t1>> : t0 \in texts, o1 \in objects, t1 \in texts}
        \cup {<<t0, o1, t1, o2, t2>> :
                t0 \in texts, o1 \in objects, t1 \in texts, o2 \in objects, t2 \in texts}

InitScan ==
    /\ InitDaemon
    /\ InitNoClient
    /\ InitNoEnsure
    /\ input \in [crate_name : Units \cup {""}, stdout : Streams]
    /\ output = <<>>

\* compile_and_extract on the stream's characters: what the scan of line
\* 170 yields, and what the function returns (<<>>: Err, line 189).
ScanOutput ==
    /\ output = <<>>
    /\ LET segs == input.stdout
           flat[i \in 0..Len(segs)] == IF i = 0 THEN <<>> ELSE flat[i - 1] \o segs[i]
       IN  output' = <<[objects |-> extract_json_objects(flat[Len(segs)]),
                        info |-> compile_and_extract(input.crate_name, flat[Len(segs)])]>>
    /\ UNCHANGED <<daemonVars, clientVars, ensureVars, input>>

SpecScan == InitScan /\ [][ScanOutput]_vars

\* ------------------------------------- reflection handles on one client
\* Crate, StructDef, TraitDef, ... hold an Arc<BronziteClient> and client_mut
\* (reflection.rs lines 155-162, and again for each handle type) turns it
\* into &mut BronziteClient with no lock.  The handles are Clone, Send and
\* Sync, so two threads can each be inside query() on the same stream.
\* Here cpc, cid and cout are indexed by the calling thread, and both
\* threads write to and read from the stream of connection 1 (crd[1] is the
\* stream's read position).
SharedSend(h) ==
    /\ cpc[h] = "idle"
    /\ wpc[1] # "none"
    /\ ~ServerClosed(1)
    /\ LinesSent < MaxLines
    /\ \E r \in ClientRequests :
           sent' = [sent EXCEPT ![1] = Append(@, MkLine("req", nextId, r[1], r[2]))]
    /\ cid' = [cid EXCEPT ![h] = nextId]
    /\ nextId' = nextId + 1
    /\ cpc' = [cpc EXCEPT ![h] = "await"]
    /\ UNCHANGED <<rd, peer, wpc, wreq, wres, outbuf, queue, cmpc, cmcur, cache,
                   reply, calls, fails, running, mainpc, invals, cout, crd, ensureVars, libVars>>

\* lib.rs lines 133-151 by thread h: the next line of the stream, whichever
\* request it answers; the BufReader of this call may take more than it.
SharedRecv(h) ==
    /\ cpc[h] = "await"
    /\ crd[1] < Len(outbuf[1])
    /\ \E n \in (crd[1] + 1)..Len(outbuf[1]) : crd' = [crd EXCEPT ![1] = n]
    /\ cout' = [cout EXCEPT ![h] = Interpret(outbuf[1][crd[1] + 1], cid[h])]
    /\ cpc' = [cpc EXCEPT ![h] = "idle"]
    /\ UNCHANGED <<daemonVars, nextId, cid, ensureVars, libVars>>

\* One BronziteClient, connected; two threads hold handles on it.
InitShared ==
    /\ InitDaemon
    /\ InitNoEnsure
    /\ InitNoLib
    /\ nextId = 1
    /\ cpc = [h \in Conns |-> "idle"]
    /\ cid = [h \in Conns |-> 0]
    /\ cout = [h \in Conns |-> NoOutcome]
    /\ crd = [c \in Conns |-> 0]

\* The client's process ends, at any point: the stream closes.
SharedDrop ==
    /\ wpc[1] # "none"
    /\ peer[1] = "open"
    /\ peer' = [peer EXCEPT ![1] = "closed"]
    /\ cpc' = [h \in Conns |-> "dropped"]
    /\ UNCHANGED <<sent, rd, wpc, wreq, wres, outbuf, queue, cmpc, cmcur, cache,
                   reply, calls, fails, running, mainpc, invals, nextId, cid, cout,
                   crd, ensureVars, libVars>>

\* The daemon with this client as its only peer that writes: the steps of
\* Next that need a request from a second connection cannot occur.
NextShared ==
    \/ \E c \in Conns : Connect(c)
    \/ MainCheck
    \/ MainAccept
    \/ MainWouldBlock
    \/ MainCleanup
    \/ MainExit
    \/ \E c \in Conns : WorkerRead(c)
    \/ \E c \in Conns : WorkerEOF(c)
    \/ \E c \in Conns : WorkerSend(c)
    \/ \E c \in Conns : WorkerRecv(c)
    \/ \E c \in Conns : WorkerWrite(c)
    \/ \E c \in Conns : WorkerWriteFailed(c)
    \/ \E c \in Conns : WorkerSetFlag(c)
    \/ CMQueryTrivial
    \/ CMQueryHit
    \/ CMQueryMiss
    \/ CMExtractOk
    \/ CMExtractErr
    \/ CMShutdown
    \/ \E h \in Conns : SharedSend(h)
    \/ \E h \in Conns : SharedRecv(h)
    \/ SharedDrop

SpecShared == InitShared /\ [][NextShared]_vars

\* ================================================================ claims
\* The connections in S have each written exactly one line, a
\* snapshot-requiring query for u, and the other connections none; and each
\* of them has its response.
SameUnitQueries(S, u) ==
    \A c \in Conns :
        IF c \in S
        THEN /\ Len(sent[c]) = 1
             /\ sent[c][1].kind = "req"
             /\ sent[c][1].query \in SnapQueries
             /\ sent[c][1].unit = u
        ELSE sent[c] = <<>>
Answered(S) == \A c \in S : Len(outbuf[c]) = 1
QuerySets == SUBSET Conns \ {{}}

\* C1, as stated: N connections that each send one snapshot-requiring query
\* for the same uncached unit cause exactly one run of the extractor.
C1_ExactlyOnce ==
    \A u \in Units, S \in QuerySets :
        (SameUnitQueries(S, u) /\ Answered(S)) => calls[u] = 1

\* C1, amended: the extractor runs once per query until a run succeeds and
\* never after that. No run starts while the unit is cached or another run
\* for it is unfinished (calls <= fails + 1); once the N queries are
\* answered the extractor has run exactly once if its first run succeeded,
\* fails + 1 times if a later run succeeded, and N times if every run failed.
C1_OnceUntilSuccess ==
    /\ \A u \in Units : fails[u] <= calls[u] /\ calls[u] <= fails[u] + 1
    /\ \A u \in Units, S \in QuerySets :
        (SameUnitQueries(S, u) /\ Answered(S)) =>
            calls[u] = IF u \in DOMAIN cache THEN fails[u] + 1 ELSE Cardinality(S)

\* Two connections asked for unit a, both are answered from one run.
C1_Witness ==
    /\ SameUnitQueries(Conns, "a")
    /\ \A c \in Conns : outbuf[c] = <<MkResp(RawId(c, 1), "Resolved")>>
    /\ calls["a"] = 1
    /\ fails["a"] = 0

\* C2: while unit u is in the cache no step runs the extractor for u, and a
\* query for u taken from the channel is answered from the stored snapshot
\* with the map untouched; only an InvalidateCache for u ends that.
C2_CachedNeverReextracted ==
    [][\A u \in Units :
         u \in DOMAIN cache =>
            /\ calls'[u] = calls[u]
            /\ (/\ cmpc = "recv"
                /\ queue # <<>>
                /\ Head(queue).type = "Query"
                /\ Head(queue).query \in SnapQueries
                /\ Head(queue).unit = u
                /\ queue' = Tail(queue))
               => /\ reply'[Head(queue).conn] = "Resolved"
                  /\ cache' = cache
                  /\ cmpc' = "recv"]_vars

\* Both connections were answered for unit a, by one run of the extractor.
C2_Witness ==
    /\ "a" \in DOMAIN cache
    /\ calls["a"] = 1
    /\ \A c \in Conns :
        /\ Len(outbuf[c]) = 1
        /\ outbuf[c][1].result = "Resolved"
        /\ sent[c][1].unit = "a"

\* C3: an extraction that fails answers the query with an Error, leaves
\* the cache map as it was, with no entry for the unit; and the next
\* snapshot-requiring query for the unit runs the extractor again.
C3_NoNegativeCaching ==
    [][/\ (cmpc = "extracting" /\ cmpc' = "recv" /\ IsError(reply'[cmcur.conn]))
          => (cache' = cache /\ cmcur.unit \notin DOMAIN cache')
       /\ (cmpc = "extracting" /\ cmpc' = "recv" /\ cmcur.unit \notin DOMAIN cache')
          => IsError(reply'[cmcur.conn])
       /\ \A u \in Units :
            (/\ fails[u] > 0
             /\ u \notin DOMAIN cache
             /\ cmpc = "recv"
             /\ queue # <<>>
             /\ Head(queue).type = "Query"
             /\ Head(queue).query \in SnapQueries
             /\ Head(queue).unit = u
             /\ queue' = Tail(queue))
            => (calls'[u] = calls[u] + 1 /\ cmpc' = "extracting")]_vars

\* A failed extraction for a was answered with an Error and the next query
\* for a ran the extractor again.
C3_Witness ==
    /\ fails["a"] >= 1
    /\ calls["a"] = 2
    /\ \E c \in Conns : \E k \in 1..Len(outbuf[c]) : outbuf[c][k].result = "ErrExtract"

\* C4, as stated: once the stop flag is set no connection is accepted and
\* handed to a worker.
C4_NoAcceptAfterStop ==
    [][running = FALSE =>
         \A c \in Conns : ~(wpc[c] = "backlog" /\ wpc'[c] = "read")]_vars

\* C5: two callers that run the ensure protocol against a path with no
\* daemon both finish with success, unless the binary cannot be run, a
\* spawn fails or a timeout elapses.
C5_BothSucceed ==
    <>(\/ \A e \in Callers : epc[e] = "ok"
       \/ \E e \in Callers : epc[e] \in {"timeout", "spawnfail", "norun"})

\* Both callers found no daemon, both spawned one, both succeeded.
C5_Witness ==
    /\ \A e \in Callers : epc[e] = "ok"
    /\ \A d \in Callers : dpc[d] # "none"

\* C6, as stated: at most one daemon is alive holding a listener for the
\* socket path.
C6_OneListener == Cardinality({d \in Callers : Listening(d)}) <= 1

\* C7: query() returns ResponseMismatch, with the two ids, whenever the
\* line it read decodes and carries another id than the request's; it
\* returns the payload or DaemonError exactly when the ids are equal.
C7_MismatchRejected ==
    [][\A c \in Conns :
         (cpc[c] = "await" /\ cpc'[c] = "idle" /\ crd[c] < Len(outbuf[c])) =>
            LET l == outbuf[c][crd[c] + 1] IN
            /\ (l.ok /\ l.id # cid[c])
                  => cout'[c] = Outcome("ResponseMismatch", "None", cid[c], l.id)
            /\ (l.ok /\ l.id = cid[c])
                  => (cout'[c].kind \in {"Ok", "DaemonError"} /\ cout'[c].data = l.result)
            /\ cout'[c].kind \in {"Ok", "DaemonError"} => (l.ok /\ l.id = cid[c])]_vars

\* The request had id 1, the response read carried id 2.
C7_Witness == cout[1] = Outcome("ResponseMismatch", "None", 1, 2)

\* C8: a line that does not decode puts nothing on the channel, is answered
\* with one Error response of id 0 (written if the peer is still there),
\* and leaves the worker reading the next line.
C8_DecodeError ==
    [][\A c \in Conns :
         (/\ wpc[c] = "read"
          /\ rd[c] < Len(sent[c])
          /\ rd'[c] = rd[c] + 1
          /\ sent[c][rd[c] + 1].kind = "bad")
         => /\ queue' = queue
            /\ wpc'[c] = "read"
            /\ wreq'[c] = wreq[c]
            /\ outbuf'[c] = IF peer[c] = "open"
                            THEN Append(outbuf[c], MkResp(0, "ErrParse"))
                            ELSE outbuf[c]]_vars

\* After the Error of id 0 the next line, a ping, was answered.
C8_Witness ==
    \E c \in Conns :
        outbuf[c] = <<MkResp(0, "ErrParse"), MkResp(RawId(c, 2), "Pong")>>

\* The non-empty lines the worker of connection c has read, and the id the
\* response to each must carry.
NonEmptyRead(c) ==
    SelectSeq(SubSeq(sent[c], 1, rd[c]), LAMBDA l : l.kind # "empty")
ExpectedId(l) == IF l.kind = "bad" THEN 0 ELSE l.id
InChannel(c) ==
    \/ \E i \in 1..Len(queue) : queue[i].conn = c
    \/ cmcur.conn = c

\* C9: the k-th response written on a connection answers the k-th non-empty
\* line read on it; a request is on the channel only while its worker waits
\* for it, with every earlier line of the connection answered; and the
\* worker reads a line only when all lines before it are answered.
C9_InOrder ==
    \A c \in Conns :
        LET L == NonEmptyRead(c) IN
        /\ Len(outbuf[c]) <= Len(L)
        /\ \A k \in 1..Len(outbuf[c]) : outbuf[c][k].id = ExpectedId(L[k])
        /\ InChannel(c) =>
              /\ wpc[c] = "wait"
              /\ Cardinality({i \in 1..Len(queue) : queue[i].conn = c}) <= 1
              /\ peer[c] = "open" => Len(outbuf[c]) = Len(L) - 1
        /\ (wpc[c] = "read" /\ peer[c] = "open") => Len(outbuf[c]) = Len(L)

\* Two requests on one connection, answered in order.
C9_Witness ==
    \E c \in Conns :
        /\ Len(outbuf[c]) = 2
        /\ outbuf[c][1].id = RawId(c, 1)
        /\ outbuf[c][2].id = RawId(c, 2)

\* C10: a BronziteClient on its own connection never gets ResponseMismatch:
\* the response it is about to read carries the id of its request, and
\* every response to a decoded request carries the id of a request written
\* on that connection.
C10_NoMismatch ==
    \A c \in Conns :
        /\ cout[c].kind # "ResponseMismatch"
        /\ (cpc[c] = "await" /\ crd[c] < Len(outbuf[c]))
              => outbuf[c][crd[c] + 1] .id = cid[c]
        /\ \A k \in 1..Len(outbuf[c]) :
              outbuf[c][k].result # "ErrParse" =>
                 \E j \in 1..Len(sent[c]) :
                    sent[c][j].kind = "req" /\ sent[c][j].id = outbuf[c][k].id

\* The client got its payload while the other connection was served too.
C10_Witness ==
    /\ cout[1].kind = "Ok"
    /\ \E c \in Conns \ {1} : Len(outbuf[c]) >= 1

\* The call under study has returned.
Returned(t) == output # <<>> /\ input.query.type = t

\* key is some text, the path separator, and name.
EndsAtSegment(key, name) ==
    \E n \in 0..Len(key) : key = SubSeq(key, 1, n) \o Sep \o name

\* C11: on a snapshot whose type map has the single key pkg::mod::Foo,
\* get-type succeeds for pkg::mod::Foo, mod::Foo and Foo and fails with
\* "Type '<name>' not found" for NotFoo and oo; on any snapshot, a name that
\* is not a key is answered with a type only if that type's key is some
\* text, then ::, then the name, and with the error only if no key is.
C11_SuffixLookup ==
    Returned("get_type") =>
        LET keys == input.info.types
            name == input.query.path
            r == output[1]
        IN  /\ keys = {Name.PkgModFoo} =>
                /\ name \in {Name.PkgModFoo, Name.ModFoo, Name.Foo} =>
                        r = Success("type_info", Name.PkgModFoo)
                /\ name \in {Name.NotFoo, Name.Oo} => r = NotFound("Type", name)
            /\ (r.status = "success" /\ name \notin keys) =>
                r.data \in keys /\ EndsAtSegment(r.data, name)
            /\ r.status = "error" =>
                name \notin keys /\ \A k \in keys : ~EndsAtSegment(k, name)

\* The bare name Foo found the type pkg::mod::Foo.
C11_Witness ==
    /\ Returned("get_type")
    /\ input.info.types = {Name.PkgModFoo}
    /\ input.query.path = Name.Foo
    /\ output[1] = Success("type_info", Name.PkgModFoo)


\* FindTypes has answered a pattern that ends with the given glob.
Globbed(glob) == output # <<>> /\ EndsWith(input.pattern, glob)

\* The text of s before its last n characters.
Before(s, n) == SubSeq(s, 1, Len(s) - n)

\* path is prefix, then ::, then a text without a separator.
OneBelow(path, prefix) ==
    \E n \in 0..Len(path) :
        /\ path = prefix \o Sep \o SubSeq(path, n + 1, Len(path))
        /\ ~Contains(SubSeq(path, n + 1, Len(path)), Sep)

\* C12 as stated: for a pattern P::* a path matches exactly when it is P,
\* then ::, then one segment without ::.
C12_OneLevelAsStated ==
    Globbed(Sep \o <<"*">>) =>
        \A path \in Paths :
            path \in output[1] <=> OneBelow(path, Before(input.pattern, 3))

\* C12: for a pattern P::*, with the white space around the pattern and
\* around the path removed first, a path matches exactly when it is P, then
\* ::, then a (possibly empty) text without ::; P itself and deeper
\* descendants do not match.
C12_OneLevel ==
    Globbed(Sep \o <<"*">>) =>
        \A path \in Paths :
            LET P == Before(Trim(input.pattern), 3) IN
            /\ path \in output[1] <=> OneBelow(Trim(path), P)
            /\ Trim(path) = P => path \notin output[1]
            /\ \A deeper \in Paths :
                (OneBelow(path, P) /\ path # P \o Sep /\ StartsWith(deeper, path \o Sep))
                    => deeper \notin output[1]

\* a::* matched a::a and neither a nor a::a::a.
C12_Witness ==
    /\ output # <<>>
    /\ input.pattern = <<"a", ":", ":", "*">>
    /\ <<"a", ":", ":", "a">> \in output[1]
    /\ <<"a">> \notin output[1]
    /\ <<"a", ":", ":", "a", ":", ":", "a">> \notin output[1]

\* C13 as stated: for a pattern P::** a path matches exactly when it is P
\* or starts with P::.
C13_RecursiveAsStated ==
    Globbed(Sep \o <<"*", "*">>) =>
        \A path \in Paths :
            LET P == Before(input.pattern, 4) IN
            path \in output[1] <=> (path = P \/ StartsWith(path, P \o Sep))

\* C13: for a pattern P::**, with the white space around the pattern and
\* around the path removed first, a path matches exactly when it is P or
\* starts with P::; a path that only starts with the text of P does not.
C13_Recursive ==
    Globbed(Sep \o <<"*", "*">>) =>
        \A path \in Paths :
            LET P == Before(Trim(input.pattern), 4)
                p == Trim(path)
            IN  /\ path \in output[1] <=> (p = P \/ StartsWith(p, P \o Sep))
                /\ (StartsWith(p, P) /\ p # P /\ ~StartsWith(p, P \o Sep))
                        => path \notin output[1]

\* a::** matched a, a::a and a::a::a, and neither aa nor ::a.
C13_Witness ==
    /\ output # <<>>
    /\ input.pattern = <<"a", ":", ":", "*", "*">>
    /\ {<<"a">>, <<"a", ":", ":", "a">>, <<"a", ":", ":", "a", ":", ":", "a">>}
            \subseteq output[1]
    /\ <<"a", "a">> \notin output[1]
    /\ <<":", ":", "a">> \notin output[1]

\* The stars of a pattern.
Stars(s) == Cardinality({i \in 1..Len(s) : s[i] = "*"})

\* C14: for a pattern A*B with one star that is not a ::* or ::** suffix
\* form (white space around pattern and path aside), a path matches exactly
\* when it is A, then some text, then B: the prefix and the suffix do not
\* overlap.
C14_WildcardDisjoint ==
    LET pat == Trim(input.pattern) IN
    (/\ output # <<>>
     /\ Stars(pat) = 1
     /\ ~EndsWith(pat, Sep \o <<"*">>)) =>
        \A path \in Paths :
            LET A == Split(pat, "*")[1]
                B == Split(pat, "*")[2]
                p == Trim(path)
            IN  path \in output[1] <=>
                    \E n \in 0..Len(p) :
                        /\ n >= Len(A)
                        /\ p = A \o SubSeq(p, Len(A) + 1, n) \o B

\* C15: a pattern with more than one star that is not P::* or P::** with a
\* star-free P matches no path.
C15_AmbiguousRejected ==
    LET pat == Trim(input.pattern) IN
    (/\ output # <<>>
     /\ Stars(pat) > 1
     /\ ~(EndsWith(pat, Sep \o <<"*", "*">>) /\ Stars(pat) = 2)) =>
        output[1] = {}


\* C16: every Request, of every query variant, and every Response, with its
\* optional fields present or absent, that was encoded and then decoded is
\* decoded without error to a value equal to the original.
C16_RoundTrip ==
    Len(output) = 2 => output[2] = Some(input.msg)


\* The keys a path-taking query is resolved against, and whether its path
\* matches none of them under the variant's lookup policy.
Unmatched(info, q) ==
    LET t == q.type
        keys == CASE t \in {"get_type", "get_fields"} -> info.types
                  [] t = "get_layout" -> info.layouts
                  [] t = "get_trait" -> info.traits
                  [] t = "resolve_alias" -> info.type_aliases
                  [] t \in {"get_trait_impls", "check_impl"} -> {i[1] : i \in info.trait_impls}
                  [] t = "get_inherent_impls" -> info.inherent_impls
                  [] t = "get_implementors" -> {i[2] : i \in info.trait_impls}
    IN  \A k \in keys :
            /\ k # q.path
            /\ t # "get_layout" => ~EndsAtSegment(k, q.path)
            /\ t = "get_trait_impls" => Split(k, "<")[1] # q.path

\* C17: a get-type, get-fields, get-layout, get-trait, resolve-alias,
\* get-trait-impls, get-inherent-impls, check-impl or get-implementors query
\* whose path matches no key of the variant's map is answered with an error
\* that names the path, never with a success.
C17_UnmatchedIsError ==
    (/\ output # <<>>
     /\ input.query.type \in {"get_type", "get_fields", "get_layout", "get_trait",
                              "resolve_alias", "get_trait_impls", "get_inherent_impls",
                              "check_impl", "get_implementors"}
     /\ Unmatched(input.info, input.query))
    => output[1].status = "error" /\ output[1].data = input.query.path


\* C18: the cache manager answers a ping with pong and a shutdown with the
\* shutting-down acknowledgement whatever the request's unit and whatever the
\* cache holds: the step that takes the query off the channel leaves the
\* cache and the count of extractor runs as they were and does not enter the
\* extractor, and the extractor never runs on behalf of a ping or a shutdown.
C18_TrivialAnswered ==
    /\ [](cmpc = "extracting" => cmcur.query \notin {"Ping", "Shutdown"})
    /\ [][(/\ cmpc = "recv"
           /\ queue # <<>>
           /\ Head(queue).type = "Query"
           /\ Head(queue).query \in {"Ping", "Shutdown"}
           /\ queue' = Tail(queue))
          => /\ reply'[Head(queue).conn] =
                    (IF Head(queue).query = "Ping" THEN "Pong" ELSE "ShuttingDown")
             /\ cache' = cache
             /\ calls' = calls
             /\ cmpc' = "recv"]_vars

\* A ping for a unit that failed to compile and is not cached was answered.
C18_Witness ==
    \E c \in Conns :
        /\ reply[c] = "Pong"
        /\ wreq[c].unit \in Units \ DOMAIN cache
        /\ fails[wreq[c].unit] > 0


\* C19: the liveness check reports running only if the connection to the
\* socket path succeeded, the ping was written and a line in which the text
\* pong occurs was read back; for a socket file with no listener behind it
\* the check reports not running.
C19_RunningOnlyOnPong ==
    output # <<>> =>
        /\ output[1] =>
            /\ input.file = "listener"
            /\ input.written
            /\ input.read.some
            /\ \E i \in 1..Len(input.read.v) :
                    /\ i + 3 <= Len(input.read.v)
                    /\ input.read.v[i] = "p" /\ input.read.v[i + 1] = "o"
                    /\ input.read.v[i + 2] = "n" /\ input.read.v[i + 3] = "g"
        /\ input.file = "stale" => ~output[1]

\* The check reported running on a reply that holds pong after other text.
C19_Witness ==
    /\ output = <<TRUE>>
    /\ input.read = Some(<<"g", "p", "o", "n", "g">>)


\* C20: a caller whose first liveness check reported a running daemon has
\* spawned no process and leaves with status 0; a caller that has left did
\* so with a non-zero status and a diagnostic exactly when its spawn failed
\* or its poll timed out, and with status 0 and no diagnostic otherwise.
C20_EnsureExitStatus ==
    /\ [](\A e \in Callers :
            /\ (epc[e] = "ok" /\ ephase[e] = "check") =>
                    dpc[e] = "none" /\ ecode[e].code \in {NoExit.code, 0}
            /\ ecode[e] # NoExit =>
                    /\ (ecode[e].code # 0 /\ ecode[e].diag)
                            <=> epc[e] \in {"spawnfail", "timeout"}
                    /\ (ecode[e].code = 0 /\ ~ecode[e].diag) <=> epc[e] = "ok")
    /\ \A e \in Callers :
            (epc[e] = "ok" /\ ephase[e] = "check") ~> (ecode[e].code = 0 /\ dpc[e] = "none")

\* One caller found the daemon of the other at its first check and left with
\* status 0; no daemon of its own was spawned.
C20_Witness ==
    \E e \in Callers :
        /\ ecode[e].code = 0
        /\ ephase[e] = "check"
        /\ dpc[e] = "none"
        /\ \E d \in Callers \ {e} : Listening(d)


\* C21: a client whose --ensure process gave up because the poll outlasted
\* the timeout receives DaemonStartTimeout, and one whose spawn failed
\* receives the different value DaemonStartFailed.
C21_TimeoutDistinct ==
    \A e \in Callers :
        output[e] # "None" =>
            /\ epc[e] = "timeout" => output[e] = "DaemonStartTimeout"
            /\ epc[e] = "spawnfail" => output[e] = "DaemonStartFailed"


\* C22: of two ensure calls made for different workspaces, neither takes
\* the daemon started for the other workspace as its running daemon: the
\* daemon whose listener a caller's liveness check is connected to was
\* spawned for the caller's own workspace.
C22_SocketPerWorkspace ==
    \A e \in Callers :
        econn[e] # "none" => ManifestPath[econn[e]] = ManifestPath[e]


\* The client handles, and the ids of the requests written on them so far.
Handles == {c \in Conns : cpc[c] # "raw"}
IssuedIds == UNION {{sent[c][k].id : k \in 1..Len(sent[c])} : c \in Handles}

\* C23: the ids that query() puts in requests, over all handles of one
\* client process, are pairwise distinct and never 0, and each id issued is
\* greater than every id issued before it.
C23_IdsIncrease ==
    /\ [](/\ 0 \notin IssuedIds
          /\ \A c, d \in Handles : \A k \in 1..Len(sent[c]) : \A l \in 1..Len(sent[d]) :
                sent[c][k].id = sent[d][l].id => c = d /\ k = l)
    /\ [][\A c \in Handles :
            Len(sent'[c]) > Len(sent[c]) =>
                \A i \in IssuedIds : sent'[c][Len(sent'[c])].id > i]_vars

\* Two requests were issued on two different handles.
C23_Witness ==
    /\ Handles = Conns
    /\ Len(sent[1]) = 1
    /\ Len(sent[2]) = 1
    /\ sent[2][1].id < sent[1][1].id


\* C24: the cache map changes only in a step of the cache manager; the
\* cache manager takes a command off the channel only when it has none in
\* progress, and it takes the oldest one; the other threads only append.
C24_OneCommandAtATime ==
    /\ [][cache' # cache =>
            \/ cmpc = "extracting" /\ cmpc' = "recv"
            \/ /\ cmpc = "recv"
               /\ queue # <<>>
               /\ Head(queue).type = "InvalidateCache"
               /\ queue' = Tail(queue)]_vars
    /\ [][queue' # queue =>
            \/ cmpc = "recv" /\ queue # <<>> /\ queue' = Tail(queue)
            \/ cmpc = "recv" /\ cmpc' = "stopped"
            \/ queue' # <<>> /\ queue' = Append(queue, queue'[Len(queue')])]_vars
    /\ [](cmpc = "extracting" => cmcur.type = "Query")
    /\ [](cmpc # "extracting" => cmcur = NoMsg)

\* While an extraction for one connection runs, an invalidation and a query
\* of another connection wait on the channel.
C24_Witness ==
    /\ cmpc = "extracting"
    /\ Len(queue) = 2
    /\ {queue[1].type, queue[2].type} = {"InvalidateCache", "Query"}


\* C25: the stop flag is set only by the worker of a connection whose last
\* line read was a shutdown request, after the response with that request's
\* id has been written to the connection, and that worker then closes the
\* connection.
C25_FlagAfterResponse ==
    [][(running /\ ~running') =>
         \E c \in Conns :
            /\ wpc[c] = "flag"
            /\ wpc'[c] = "closed"
            /\ rd[c] >= 1
            /\ sent[c][rd[c]].kind = "req"
            /\ sent[c][rd[c]].query = "Shutdown"
            /\ outbuf[c] # <<>>
            /\ outbuf[c][Len(outbuf[c])].id = sent[c][rd[c]].id
            /\ outbuf'[c] = outbuf[c]]_vars

\* The flag was set after the acknowledgement of a shutdown was written.
C25_Witness ==
    /\ ~running
    /\ \E c \in Conns :
        /\ wpc[c] = "closed"
        /\ outbuf[c] # <<>>
        /\ outbuf[c][Len(outbuf[c])].result = "ShuttingDown"


\* C26: every shutdown request that a worker has decoded and put on the
\* channel leads to the daemon's stop: the flag is set, the accept loop and
\* the cache manager end and main removes the socket file and returns; also
\* when the client has closed its end before the response is written.
C26_ShutdownStops ==
    \A c \in Conns :
        (wpc[c] = "wait" /\ wreq[c].query = "Shutdown")
            ~> (~running /\ cmpc = "stopped" /\ mainpc = "exited")


\* C27: a request that an accepted connection has sent, and that is not yet
\* answered at the moment the worker of another connection sets the stop
\* flag, is answered on its connection (unless its own peer closes it).
C27_OthersStillAnswered ==
    \A c \in Conns :
        (/\ \E d \in Conns \ {c} : wpc[d] = "flag"
         /\ wpc[c] \in {"read", "send", "wait", "write"}
         /\ peer[c] = "open"
         /\ outbuf[c] = <<>>
         /\ \E k \in 1..Len(sent[c]) : sent[c][k].kind = "req")
            ~> (outbuf[c] # <<>> \/ peer[c] = "closed")


\* The worker of connection c takes a step on a failure of its connection:
\* the end of the stream or a read error, a failed write, or a line that
\* does not decode.
FailureStep(c) ==
    /\ ~(mainpc = "join" /\ mainpc' = "exited")
    /\ \/ wpc[c] \in {"read", "write"} /\ wpc'[c] = "closed"
       \/ /\ wpc[c] = "read"
          /\ rd'[c] = rd[c] + 1
          /\ sent[c][rd'[c]].kind = "bad"

\* C28: a failure on one connection leaves the other connections, the stop
\* flag, the accept loop, the cache manager, its queue and the cache map as
\* they were; and while a connection has failed, a request sent on another
\* connection is answered unless that connection's peer closes it or a
\* shutdown stops the daemon.
C28_FailureIsLocal ==
    /\ [][\A c \in Conns :
            FailureStep(c) =>
                /\ \A d \in Conns \ {c} : wpc'[d] = wpc[d] /\ outbuf'[d] = outbuf[d]
                /\ running' = running
                /\ mainpc' = mainpc
                /\ cmpc' = cmpc
                /\ queue' = queue
                /\ cache' = cache]_vars
    /\ \A d \in Conns :
        (/\ \E c \in Conns \ {d} : wpc[c] = "closed" /\ peer[c] = "closed"
         /\ wpc[d] \in {"read", "send", "wait", "write"}
         /\ outbuf[d] = <<>>
         /\ \E k \in 1..Len(sent[d]) : sent[d][k].kind = "req")
            ~> (outbuf[d] # <<>> \/ peer[d] = "closed" \/ ~running)

\* One peer disconnected with its query unanswered; the daemon runs on and
\* has answered the other connection.
C28_Witness ==
    \E c, d \in Conns :
        /\ wpc[c] = "closed"
        /\ peer[c] = "closed"
        /\ sent[c] # <<>>
        /\ outbuf[c] = <<>>
        /\ running
        /\ mainpc # "exited"
        /\ cmpc # "stopped"
        /\ outbuf[d] # <<>>

\* C29: after spawning, the ensure protocol always terminates: every caller
\* that has entered wait_for_daemon_ready comes to return success or the
\* timeout failure, whatever the process bound to the socket path does,
\* including a listener that takes the connection and never answers.
C29_EnsureTerminates ==
    \A e \in Callers : (ephase[e] = "poll") ~> (epc[e] \in {"ok", "timeout"})

\* C30: the process an ensure call spawns serves and never runs the ensure
\* protocol.  A process appears only by the spawn of a caller that is in its
\* first check, and that caller then polls: it spawns once.  No process is
\* started a second time, and a step of a spawned process starts no process
\* and moves no caller.
C30_NoSpawnChain ==
    [][\A e \in Callers :
        /\ (dpc[e] = "none" /\ dpc'[e] # "none") =>
              /\ epc[e] = "spawn" /\ ephase[e] = "check"
              /\ dpc'[e] = "start" /\ ephase'[e] = "poll" /\ epc'[e] = "loop"
              /\ \A x \in Callers \ {e} : dpc'[x] = dpc[x]
        /\ dpc[e] # "none" => dpc'[e] # "none" /\ (dpc'[e] = "start" => dpc[e] = "start")
        /\ ephase[e] = "poll" => ephase'[e] = "poll"
        /\ (dpc[e] # "none" /\ dpc'[e] # dpc[e]) =>
              /\ epc' = epc /\ ephase' = ephase /\ ecode' = ecode
              /\ \A x \in Callers \ {e} : dpc'[x] = dpc[x]]_vars

\* Both calls have spawned, each once, and one of the two processes serves
\* while its caller has returned success.
C30_Witness ==
    \E e \in Callers :
        /\ dpc[e] = "serve" /\ epc[e] = "ok" /\ ephase[e] = "poll"
        /\ \A x \in Callers : dpc[x] # "none"

\* C31: get_layout follows the lookup of get_type: whenever the name
\* supplied finds a type (by its exact key, or as the tail of a key after
\* ::) and that type's path has a layout entry, get_layout for the same
\* name succeeds.
C31_LayoutTwoTier ==
    (output # <<>> /\ input.query.type = "get_layout") =>
        ((\E k \in Lookup(input.info.types, input.query.path) : k \in input.info.layouts)
            => output[1].status = "success")

\* C32: when the path supplied is itself a key of the map a query reads, the
\* result comes from that key's entry alone: get_type, get_trait and
\* resolve_alias answer with that entry, get_trait_impls and
\* get_inherent_impls with the impls under that key, and check_impl with an
\* impl under that key or with none.
C32_ExactKeyAlone ==
    LET q == input.query
        info == input.info
        d == output[1].data
    IN  output # <<>> =>
          /\ (q.type = "get_type" /\ q.path \in info.types) => d = q.path
          /\ (q.type = "get_trait" /\ q.path \in info.traits) => d = q.path
          /\ (q.type = "resolve_alias" /\ q.path \in info.type_aliases) => d = q.path
          /\ (q.type = "get_trait_impls" /\ q.path \in {i[1] : i \in info.trait_impls}) =>
                d = {i \in info.trait_impls : i[1] = q.path}
          /\ (q.type = "get_inherent_impls" /\ q.path \in info.inherent_impls) =>
                d = {q.path}
          /\ (q.type = "check_impl" /\ q.path \in {i[1] : i \in info.trait_impls}) =>
                /\ d.implements <=>
                     \E i \in info.trait_impls :
                        /\ i[1] = q.path
                        /\ i[2] = q.trait_path \/ EndsWith(i[2], Sep \o q.trait_path)
                /\ d.implements => d.impl_info[1][1] = q.path

\* C33: check_impl answers true, with the impl it matched, exactly when some
\* trait-impl key matches type_path (equal to it, ending with :: and it, or
\* equal to it before the first <) and holds an impl whose trait path matches
\* trait_path (equal, or ending with :: and it); otherwise false and no impl.
\* So check_impl is true whenever get_trait_impls returns a matching impl.
C33_CheckImplExact ==
    LET q == input.query
        d == output[1].data
        hits == {i \in input.info.trait_impls :
                    /\ \/ i[1] = q.path
                       \/ EndsWith(i[1], Sep \o q.path)
                       \/ Split(i[1], "<")[1] = q.path
                    /\ i[2] = q.trait_path \/ EndsWith(i[2], Sep \o q.trait_path)}
    IN  (output # <<>> /\ q.type = "check_impl") =>
          /\ d.implements <=> hits # {}
          /\ d.implements => \E i \in hits : d.impl_info = <<i>>
          /\ ~d.implements => d.impl_info = <<>>

\* C34: get_implementors returns every implementing type that has, in the
\* trait-impl map, an impl whose trait path matches the one supplied (equal,
\* or ending with :: and it): none is missing, whatever the form of its key
\* and whether or not the type map has that key.
C34_AllImplementors ==
    LET q == input.query IN
    (output # <<>> /\ q.type = "get_implementors") =>
        \A i \in input.info.trait_impls :
            (i[2] = q.path \/ EndsWith(i[2], Sep \o q.path)) => i[1] \in output[1].data

\* C35: for an output made of complete objects with other text before,
\* between and after them, extract_json_objects returns exactly those
\* objects, in order: a brace within a string literal does not count, a
\* nested object is not returned on its own, and text outside the objects
\* (a stray closing brace, a quote) does not hide an object that follows.
C35_ExactlyTheObjects ==
    output # <<>> =>
        output[1].objects = [k \in 1..(Len(input.stdout) \div 2) |-> input.stdout[2 * k]]

\* The same for an output whose text outside the objects holds neither a
\* quote nor a closing brace.
PlainText ==
    \A k \in 1..Len(input.stdout) :
        k % 2 = 1 => \A j \in 1..Len(input.stdout[k]) : input.stdout[k][j] \notin {"\"", "}"}
C35_PlainTextBetween ==
    (output # <<>> /\ PlainText) =>
        output[1].objects = [k \in 1..(Len(input.stdout) \div 2) |-> input.stdout[2 * k]]

\* The snapshots of unit u in the stream, in order.
SnapshotsOf(u) ==
    SelectSeq([k \in 1..(Len(input.stdout) \div 2) |-> input.stdout[2 * k]],
              LAMBDA o : o \in {<<"{", u, "}">>, <<"{", u, "x", "}">>})

\* C36: extraction for a non-empty unit succeeds exactly when the extractor's
\* standard output holds at least one object that decodes as a snapshot of
\* that unit; the snapshot returned is the first such object, and objects
\* that do not decode or belong to another unit are skipped.
C36_FirstMatching ==
    (output # <<>> /\ input.crate_name # "") =>
        IF SnapshotsOf(input.crate_name) = <<>>
        THEN output[1].info = <<>>
        ELSE output[1].info = SnapshotsOf(input.crate_name)[1]

\* The same for an output whose text outside the objects holds neither a
\* quote nor a closing brace.
C36_FirstMatchingPlain ==
    (output # <<>> /\ input.crate_name # "" /\ PlainText) =>
        IF SnapshotsOf(input.crate_name) = <<>>
        THEN output[1].info = <<>>
        ELSE output[1].info = SnapshotsOf(input.crate_name)[1]

\* C37: every request a worker has decoded gets exactly one response
\* written, with the request's id, unless the connection itself fails: the
\* worker does not wait for ever for the cache manager, also when the cache
\* manager has stopped or stops before it serves the request.
C37_DecodedIsAnswered ==
    /\ [][\A c \in Conns :
            (wreq[c] # NoReq /\ wreq'[c] = NoReq) =>
                \/ /\ outbuf'[c] # <<>>
                   /\ outbuf'[c] = Append(outbuf[c], outbuf'[c][Len(outbuf'[c])])
                   /\ outbuf'[c][Len(outbuf'[c])].id = RespId(wreq[c])
                \/ peer[c] = "closed" /\ outbuf'[c] = outbuf[c]]_vars
    /\ \A c \in Conns : (wreq[c] # NoReq) ~> (wreq[c] = NoReq \/ peer[c] = "closed")

\* The same, as long as the process has not ended.
C37_AnsweredWhileAlive ==
    \A c \in Conns :
        (wreq[c] # NoReq) ~> (wreq[c] = NoReq \/ peer[c] = "closed" \/ mainpc = "exited")

\* C38: in every reachable state each cache entry under a non-empty key
\* holds a snapshot whose own crate name is that key; and a step inserts or
\* removes whole entries: an entry that stays holds the snapshot it held.
C38_EntryMatchesKey ==
    /\ [](\A k \in DOMAIN cache : k # "" => cache[k] = k)
    /\ [][\A k \in DOMAIN cache \cap DOMAIN cache' : cache'[k] = cache[k]]_vars

\* A unit was extracted and cached, invalidated, and extracted and cached
\* again.
C38_Witness ==
    /\ "a" \in DOMAIN cache
    /\ cache["a"] = "a"
    /\ calls["a"] = 2
    /\ fails["a"] = 0
    /\ invals = 1

\* C39: a daemon removes only a socket file of its own: while a live daemon
\* listens on the file at the socket path, no step of another daemon removes
\* or replaces that file, so a daemon that answered a probe stays reachable
\* at the path.
C39_OwnSocketOnly ==
    [][\A d \in Callers : (sock = d /\ Listening(d)) => sock' = d]_vars

\* C40: on one client connection the exchanges do not interleave, however
\* the handles that share the client are used: a request is written only
\* when no caller is waiting for the response to an earlier one, and no
\* caller reads the response to another caller's request.
C40_NoInterleaving ==
    /\ [][Len(sent'[1]) > Len(sent[1]) => \A h \in Conns : cpc[h] # "await"]_vars
    /\ [](\A h \in Conns : cout[h].kind # "ResponseMismatch")

====
